---- MODULE Spec2Model ----
(***************************************************************************)
(* Model of the @synet/did library: the DID URL parser / validator         *)
(* (utils.ts) and the DID creation functions (create.ts).                  *)
(*                                                                         *)
(* A JavaScript string is a sequence of UTF-16 code units, written as a    *)
(* sequence of integers: "did:" is <<100, 105, 100, 58>>.  An optional     *)
(* value is Undefined (the empty tuple) or Some(v) (the one-element tuple  *)
(* holding v).  The outcome of a call is a record [threw, error, msg, val]:*)
(* a return value, or the class and message of the exception thrown.       *)
(***************************************************************************)
EXTENDS Integers, Sequences, FiniteSets, TLC

VARIABLES op, arg, ret, calls

vars == <<op, arg, ret, calls>>

----------------------------------------------------------------------------
(* Bounds of the model                                                     *)

\* longest free suffix appended to a head when enumerating input strings
MaxTail == 2

\* longest run of the repeated hex pair beyond the permitted key lengths
MaxExtraBytes == 1

\* largest number of the contiguous range handed to encodeVarint
MaxVarint == 300

\* longest byte sequence enumerated for encodeBase58
MaxBytes == 3

\* the calls of createDIDKey, and of other functions, in one behaviour
MaxCalls == 2

\* the learn calls in one behaviour of the DID Units
MaxLearns == 2

----------------------------------------------------------------------------
(* JavaScript values and outcomes                                          *)

Undefined == <<>>

Some(v) == <<v>>

Ret(v) == [threw |-> FALSE, error |-> "", msg |-> "", val |-> v]

Throw(e, m) == [threw |-> TRUE, error |-> e, msg |-> m, val |-> <<>>]

\* a JavaScript value handed to a function that expects a string
StrVal(s) == [type |-> "string", str |-> s, num |-> 0]

NonStrVal(t, n) == [type |-> t, str |-> <<>>, num |-> n]

\* !v
Falsy(v) ==
    \/ v.type \in {"null", "undefined"}
    \/ v.type = "string" /\ v.str = <<>>
    \/ v.type = "number" /\ v.num = 0

\* the guard `!x || typeof x !== "string"` that opens every string function
NotAString(v) == Falsy(v) \/ v.type # "string"

----------------------------------------------------------------------------
(* String primitives                                                       *)

\* WhiteSpace and LineTerminator code units: what trim() strips and \s matches
IsWhiteSpace(c) ==
    c \in {9, 10, 11, 12, 13, 32, 160, 5760, 8232, 8233, 8239, 8287, 12288, 65279}
          \cup (8192 .. 8202)

\* the code units the regular expression `.` does not match
IsLineTerminator(c) == c \in {10, 13, 8232, 8233}

IsLower(c) == c \in 97 .. 122

IsDigit(c) == c \in 48 .. 57

IsUpper(c) == c \in 65 .. 90

IsHexDigit(c) == IsDigit(c) \/ c \in 97 .. 102 \/ c \in 65 .. 70

HexValue(c) ==
    IF IsDigit(c) THEN c - 48 ELSE IF c \in 97 .. 102 THEN c - 87 ELSE c - 55

\* uppercase hexadecimal digit of a value 0..15
HexChar(n) == IF n < 10 THEN 48 + n ELSE 55 + n

RECURSIVE TrimStart(_)
TrimStart(s) ==
    IF s # <<>> /\ IsWhiteSpace(Head(s)) THEN TrimStart(Tail(s)) ELSE s

RECURSIVE TrimEnd(_)
TrimEnd(s) ==
    IF s # <<>> /\ IsWhiteSpace(s[Len(s)])
    THEN TrimEnd(SubSeq(s, 1, Len(s) - 1))
    ELSE s

\* String.prototype.trim
Trim(s) == TrimEnd(TrimStart(s))

\* String.prototype.startsWith
StartsWith(s, p) == Len(s) >= Len(p) /\ SubSeq(s, 1, Len(p)) = p

\* String.prototype.includes for a one-unit needle
Includes(s, c) == \E i \in 1 .. Len(s) : s[i] = c

\* String.prototype.includes for a substring
IncludesStr(s, p) ==
    \E i \in 1 .. (Len(s) - Len(p) + 1) : SubSeq(s, i, i + Len(p) - 1) = p

\* index of the first occurrence of c in s at or after i, Len(s) + 1 if none
IndexFrom(s, c, i) ==
    IF \A j \in i .. Len(s) : s[j] # c THEN (IF i > Len(s) THEN i ELSE Len(s) + 1)
    ELSE CHOOSE j \in i .. Len(s) : s[j] = c /\ \A k \in i .. (j - 1) : s[k] # c

\* String.prototype.split on a one-unit separator
RECURSIVE Split(_, _)
Split(s, c) ==
    LET i == IndexFrom(s, c, 1)
    IN  IF i > Len(s)
        THEN <<s>>
        ELSE <<SubSeq(s, 1, i - 1)>> \o Split(SubSeq(s, i + 1, Len(s)), c)

\* String.prototype.replace(/c/g, r)
RECURSIVE ReplaceAll(_, _, _)
ReplaceAll(s, c, r) ==
    IF s = <<>> THEN <<>>
    ELSE IF Len(s) = 1 THEN (IF s[1] = c THEN r ELSE s)
    ELSE ReplaceAll(SubSeq(s, 1, Len(s) \div 2), c, r)
         \o ReplaceAll(SubSeq(s, (Len(s) \div 2) + 1, Len(s)), c, r)

\* Array.prototype.join
RECURSIVE Join(_, _)
Join(parts, sep) ==
    IF parts = <<>> THEN <<>>
    ELSE IF Len(parts) = 1 THEN parts[1]
    ELSE parts[1] \o sep \o Join(Tail(parts), sep)

\* first index at or after i whose code unit fails the class test, for the
\* greedy character-class loops of the regular expressions
SpanLowerDigit(s, i) ==
    IF \A j \in i .. Len(s) : IsLower(s[j]) \/ IsDigit(s[j])
    THEN (IF i > Len(s) THEN i ELSE Len(s) + 1)
    ELSE CHOOSE j \in i .. Len(s) :
             /\ ~(IsLower(s[j]) \/ IsDigit(s[j]))
             /\ \A k \in i .. (j - 1) : IsLower(s[k]) \/ IsDigit(s[k])

SpanNot(s, i, stop) ==
    IF \A j \in i .. Len(s) : s[j] \notin stop
    THEN (IF i > Len(s) THEN i ELSE Len(s) + 1)
    ELSE CHOOSE j \in i .. Len(s) :
             s[j] \in stop /\ \A k \in i .. (j - 1) : s[k] \notin stop

----------------------------------------------------------------------------
(* decodeURIComponent / encodeURIComponent (ECMAScript Decode and Encode)  *)

\* the byte written at s[i..i+2] as %XX, or -1 when it is not such an escape
EscapedByte(s, i) ==
    IF i + 2 <= Len(s) /\ s[i] = 37 /\ IsHexDigit(s[i + 1]) /\ IsHexDigit(s[i + 2])
    THEN 16 * HexValue(s[i + 1]) + HexValue(s[i + 2])
    ELSE -1

\* number of octets of the UTF-8 sequence a lead byte opens, 0 when it opens none
Utf8Length(b) ==
    IF b < 128 THEN 1
    ELSE IF b \in 192 .. 223 THEN 2
    ELSE IF b \in 224 .. 239 THEN 3
    ELSE IF b \in 240 .. 247 THEN 4
    ELSE 0

\* the code point of the UTF-8 sequence of n octets b1..bn (-1 stands for an
\* octet that is not escaped as %XX), or -1 when it is not well-formed UTF-8
Utf8Value(n, b1, b2, b3, b4) ==
    LET v == IF n = 2 THEN (b1 - 192) * 64 + (b2 - 128)
             ELSE IF n = 3 THEN (b1 - 224) * 4096 + (b2 - 128) * 64 + (b3 - 128)
             ELSE (b1 - 240) * 262144 + (b2 - 128) * 4096 + (b3 - 128) * 64 + (b4 - 128)
        least == IF n = 2 THEN 128 ELSE IF n = 3 THEN 2048 ELSE 65536
    IN  IF /\ b2 \in 128 .. 191
           /\ n >= 3 => b3 \in 128 .. 191
           /\ n >= 4 => b4 \in 128 .. 191
           /\ v >= least
           /\ v <= 1114111
           /\ v \notin 55296 .. 57343
        THEN v
        ELSE -1

\* the code point of the n-octet sequence escaped at s[i..], or -1
Utf8CodePoint(s, i, n) ==
    Utf8Value(n, EscapedByte(s, i), EscapedByte(s, i + 3), EscapedByte(s, i + 6),
              EscapedByte(s, i + 9))

\* the UTF-16 code units of a code point
Utf16(v) ==
    IF v < 65536 THEN <<v>>
    ELSE <<55296 + ((v - 65536) \div 1024), 56320 + ((v - 65536) % 1024)>>

\* decodeURIComponent: Ret(decoded) or the URIError it throws.  DecodeFrom is
\* the loop over the code units, DecodeEscape the step at a "%" whose escape
\* is the byte b, DecodeSequence the step for a sequence of n > 1 octets that
\* decodes to the code point v.
RECURSIVE DecodeFrom(_, _, _)
RECURSIVE DecodeEscape(_, _, _, _)
RECURSIVE DecodeSequence(_, _, _, _, _)
DecodeFrom(s, i, acc) ==
    IF i > Len(s) THEN Ret(acc)
    ELSE IF s[i] # 37 THEN DecodeFrom(s, i + 1, Append(acc, s[i]))
    ELSE DecodeEscape(s, i, acc, EscapedByte(s, i))

DecodeEscape(s, i, acc, b) ==
    IF b < 0 \/ Utf8Length(b) = 0 THEN Throw("URIError", "URI malformed")
    ELSE IF Utf8Length(b) = 1 THEN DecodeFrom(s, i + 3, Append(acc, b))
    ELSE DecodeSequence(s, i, acc, Utf8Length(b), Utf8CodePoint(s, i, Utf8Length(b)))

DecodeSequence(s, i, acc, n, v) ==
    IF v < 0 THEN Throw("URIError", "URI malformed")
    ELSE DecodeFrom(s, i + 3 * n, acc \o Utf16(v))

decodeURIComponent(s) == DecodeFrom(s, 1, <<>>)

\* the characters encodeURIComponent leaves alone: A-Z a-z 0-9 - _ . ! ~ * ' ( )
IsUnreserved(c) ==
    IsLower(c) \/ IsUpper(c) \/ IsDigit(c) \/ c \in {45, 95, 46, 33, 126, 42, 39, 40, 41}

PercentByte(b) == <<37, HexChar(b \div 16), HexChar(b % 16)>>

\* the escaped UTF-8 octets of a code point
PercentUtf8(v) ==
    IF v < 128 THEN PercentByte(v)
    ELSE IF v < 2048 THEN PercentByte(192 + (v \div 64)) \o PercentByte(128 + (v % 64))
    ELSE IF v < 65536
         THEN PercentByte(224 + (v \div 4096)) \o PercentByte(128 + ((v \div 64) % 64))
              \o PercentByte(128 + (v % 64))
         ELSE PercentByte(240 + (v \div 262144)) \o PercentByte(128 + ((v \div 4096) % 64))
              \o PercentByte(128 + ((v \div 64) % 64)) \o PercentByte(128 + (v % 64))

\* encodeURIComponent: Ret(encoded) or the URIError a lone surrogate raises
RECURSIVE EncodeFrom(_, _, _)
EncodeFrom(s, i, acc) ==
    IF i > Len(s) THEN Ret(acc)
    ELSE IF IsUnreserved(s[i]) THEN EncodeFrom(s, i + 1, Append(acc, s[i]))
    ELSE IF s[i] \in 56320 .. 57343 THEN Throw("URIError", "URI malformed")
    ELSE IF s[i] \in 55296 .. 56319
         THEN IF i + 1 <= Len(s) /\ s[i + 1] \in 56320 .. 57343
              THEN EncodeFrom(s, i + 2,
                       acc \o PercentUtf8((s[i] - 55296) * 1024 + (s[i + 1] - 56320) + 65536))
              ELSE Throw("URIError", "URI malformed")
         ELSE EncodeFrom(s, i + 1, acc \o PercentUtf8(s[i]))

encodeURIComponent(s) == EncodeFrom(s, 1, <<>>)

----------------------------------------------------------------------------
(* Plain objects used as string-keyed maps (Record<string, string>)        *)

\* the decimal digits of 4294967294, the largest array index
MaxArrayIndexDigits == <<52, 50, 57, 52, 57, 54, 55, 50, 57, 52>>

RECURSIVE LexLeq(_, _)
LexLeq(a, b) ==
    \/ a = <<>>
    \/ Head(a) < Head(b)
    \/ Head(a) = Head(b) /\ LexLeq(Tail(a), Tail(b))

\* a property key that is a canonical array index: such keys are enumerated
\* first, in ascending numeric order, before the other keys
IsArrayIndex(k) ==
    /\ k # <<>>
    /\ \A i \in 1 .. Len(k) : IsDigit(k[i])
    /\ Len(k) > 1 => k[1] # 48
    /\ Len(k) < 10 \/ (Len(k) = 10 /\ LexLeq(k, MaxArrayIndexDigits))

IndexBelow(a, b) == Len(a) < Len(b) \/ (Len(a) = Len(b) /\ a # b /\ LexLeq(a, b))

\* obj[k] = v on an object kept as the sequence of its <<key, value>> entries
\* in property enumeration order (Object.keys / Object.entries order)
ObjectSet(obj, k, v) ==
    IF \E i \in 1 .. Len(obj) : obj[i][1] = k
    THEN [i \in 1 .. Len(obj) |-> IF obj[i][1] = k THEN <<k, v>> ELSE obj[i]]
    ELSE IF IsArrayIndex(k)
         THEN LET before == {i \in 1 .. Len(obj) :
                                IsArrayIndex(obj[i][1]) /\ IndexBelow(obj[i][1], k)}
                  n == Cardinality(before)
              IN  SubSeq(obj, 1, n) \o <<(<<k, v>>)>> \o SubSeq(obj, n + 1, Len(obj))
         ELSE Append(obj, <<k, v>>)

\* the map an object denotes, whatever the order of its entries
AsMap(obj) == {obj[i] : i \in 1 .. Len(obj)}

----------------------------------------------------------------------------
(* utils.ts: parsing and validation                                        *)

StrDid == <<100, 105, 100, 58>>          \* "did:"

StrKey == <<107, 101, 121>>              \* "key"

StrWeb == <<119, 101, 98>>               \* "web"

\* SUPPORTED_METHODS
SUPPORTED_METHODS == {StrKey, StrWeb}

NoMatch ==
    [matched |-> FALSE, method |-> <<>>, identifier |-> <<>>,
     path |-> Undefined, query |-> Undefined, fragment |-> Undefined]

\* s.match(DID_REGEX) for
\*   /^did:([a-z][a-z0-9]*):([^/?#]+)(?:\/([^?#]*))?(?:\?([^#]*))?(?:#(.*))?$/
\* Every class excludes the delimiter that follows it, so the greedy extents
\* are the only way to match.  MethodEnd .. QueryEnd are the indices after
\* the method, the identifier, the optional path and the optional query; a
\* capture group that did not take part is Undefined.
MethodEnd(s) == IF Len(s) >= 5 /\ IsLower(s[5]) THEN SpanLowerDigit(s, 6) ELSE 5

IdentifierEnd(s, mEnd) == SpanNot(s, mEnd + 1, {47, 63, 35})

PathEnd(s, iEnd) ==
    IF iEnd <= Len(s) /\ s[iEnd] = 47 THEN SpanNot(s, iEnd + 1, {63, 35}) ELSE iEnd

QueryEnd(s, pEnd) ==
    IF pEnd <= Len(s) /\ s[pEnd] = 63 THEN SpanNot(s, pEnd + 1, {35}) ELSE pEnd

Captures(s, mEnd, iEnd, pEnd, qEnd) ==
    IF /\ StartsWith(s, StrDid)
       /\ mEnd > 5
       /\ mEnd <= Len(s)
       /\ s[mEnd] = 58
       /\ iEnd > mEnd + 1
       /\ IF qEnd <= Len(s) /\ s[qEnd] = 35
          THEN \A i \in (qEnd + 1) .. Len(s) : ~IsLineTerminator(s[i])
          ELSE qEnd = Len(s) + 1
    THEN [matched |-> TRUE,
          method |-> SubSeq(s, 5, mEnd - 1),
          identifier |-> SubSeq(s, mEnd + 1, iEnd - 1),
          path |-> IF pEnd > iEnd THEN Some(SubSeq(s, iEnd + 1, pEnd - 1)) ELSE Undefined,
          query |-> IF qEnd > pEnd THEN Some(SubSeq(s, pEnd + 1, qEnd - 1)) ELSE Undefined,
          fragment |-> IF qEnd <= Len(s) THEN Some(SubSeq(s, qEnd + 1, Len(s))) ELSE Undefined]
    ELSE NoMatch

DID_REGEX(s) ==
    Captures(s, MethodEnd(s),
             IdentifierEnd(s, MethodEnd(s)),
             PathEnd(s, IdentifierEnd(s, MethodEnd(s))),
             QueryEnd(s, PathEnd(s, IdentifierEnd(s, MethodEnd(s)))))

\* `x || undefined` on a captured string: the empty string becomes undefined
OrUndefined(capture) ==
    IF capture = Undefined \/ capture[1] = <<>> THEN Undefined ELSE capture

\* the result parseDID returns for a rejected input
ParseFailure(did, error) ==
    [did |-> did,
     components |-> [method |-> StrKey, identifier |-> <<>>, path |-> Undefined,
                     query |-> Undefined, fragment |-> Undefined],
     isValid |-> FALSE,
     error |-> error]

\* queryParams[decodeURIComponent(key)] = value ? decodeURIComponent(value) : ""
\* given the outcomes k and v of the two decodings
SetDecoded(queryParams, k, v) ==
    IF k.threw THEN k
    ELSE IF v.threw THEN v
    ELSE Ret(ObjectSet(queryParams, k.val, v.val))

\* one pass of the loop over query.split("&"), kv being pair.split("=")
SetPair(queryParams, kv) ==
    IF kv[1] = <<>> THEN Ret(queryParams)
    ELSE SetDecoded(queryParams, decodeURIComponent(kv[1]),
                    IF Len(kv) >= 2 /\ kv[2] # <<>>
                    THEN decodeURIComponent(kv[2])
                    ELSE Ret(<<>>))

\* the loop over the pairs: Ret(queryParams), or the URIError
\* decodeURIComponent throws; done is the outcome of the passes so far
RECURSIVE ParseQueryPairs(_, _)
ParseQueryPairs(pairs, done) ==
    IF done.threw \/ pairs = <<>> THEN done
    ELSE ParseQueryPairs(Tail(pairs), SetPair(done.val, Split(Head(pairs), 61)))

\* the result parseDID builds from a match and the outcome q of the query loop
ParseSuccess(trimmed, match, q) ==
    IF q.threw THEN q
    ELSE Ret([did |-> StrVal(trimmed),
              components |->
                  [method |-> match.method,
                   identifier |-> match.identifier,
                   path |-> OrUndefined(match.path),
                   query |-> IF q.val # <<>> THEN Some(q.val) ELSE Undefined,
                   fragment |-> OrUndefined(match.fragment)],
              isValid |-> TRUE,
              error |-> ""])

\* parseDID from `const match = trimmed.match(DID_REGEX)` on
ParseMatch(trimmed, match) ==
    IF ~match.matched
    THEN Ret(ParseFailure(StrVal(trimmed),
             "Invalid DID format - must match scheme:method:identifier pattern"))
    ELSE IF match.method = <<>> \/ match.identifier = <<>>
    THEN Ret(ParseFailure(StrVal(trimmed), "DID method and identifier cannot be empty"))
    ELSE ParseSuccess(trimmed, match,
                      IF match.query # Undefined /\ match.query[1] # <<>>
                      THEN ParseQueryPairs(Split(match.query[1], 38), Ret(<<>>))
                      ELSE Ret(<<>>))

\* parseDID without the check for a string that is empty after trimming
ParseTrimmed_NoEmptyCheck(trimmed) == ParseMatch(trimmed, DID_REGEX(trimmed))

\* parseDID from `const trimmed = did.trim()` on
ParseTrimmed(trimmed) ==
    IF trimmed = <<>>
    THEN Ret(ParseFailure(StrVal(trimmed), "Empty DID string is invalid"))
    ELSE ParseMatch(trimmed, DID_REGEX(trimmed))

\* parseDID(did)
parseDID(did) ==
    IF NotAString(did)
    THEN Ret(ParseFailure(did, "DID must be a non-empty string"))
    ELSE ParseTrimmed(Trim(did.str))

\* /^[a-z][a-z0-9]*$/.test(method)
IsMethodName(m) ==
    m # <<>> /\ IsLower(m[1]) /\ SpanLowerDigit(m, 2) = Len(m) + 1

\* the did:key character test for the space and the listed punctuation only
HasInvalidKeyChar_SpaceOnly(identifier) ==
    \E i \in 1 .. Len(identifier) :
        identifier[i] \in {32, 33, 64, 35, 36, 37, 94, 38, 42, 40, 41, 43, 61, 91, 93,
                           123, 125, 124, 92, 58, 34, 39, 60, 62, 63, 44, 46}

\* /[\s!@#$%^&*()+=\[\]{}|\\:";'<>?,./]/.test(identifier)
HasInvalidKeyChar(identifier) ==
    \E i \in 1 .. Len(identifier) :
        \/ IsWhiteSpace(identifier[i])
        \/ identifier[i] \in {33, 64, 35, 36, 37, 94, 38, 42, 40, 41, 43, 61, 91, 93,
                              123, 125, 124, 92, 58, 34, 59, 39, 60, 62, 63, 44, 46, 47}

Invalid(error) == [isValid |-> FALSE, error |-> error, warnings |-> Undefined]

\* no warning for any method
MethodWarnings_None(method) == Undefined

\* `warnings.length > 0 ? warnings : undefined` after the check of the method
\* against SUPPORTED_METHODS; a warning is kept as the template and the
\* method name it is filled with
MethodWarnings(method) ==
    IF method \notin SUPPORTED_METHODS
    THEN Some(<<(<<"Method '%s' is not officially supported", method>>)>>)
    ELSE Undefined

\* validateDID from `const { components } = parseResult` on
ValidateComponents(components) ==
    IF components.method \notin SUPPORTED_METHODS /\ ~IsMethodName(components.method)
    THEN Ret(Invalid("Invalid DID method name"))
    ELSE IF components.method = StrKey /\ components.identifier = <<>>
    THEN Ret(Invalid("Empty did:key identifier"))
    ELSE IF components.method = StrKey /\ HasInvalidKeyChar(components.identifier)
    THEN Ret(Invalid("Invalid did:key identifier format"))
    ELSE IF components.method = StrKey /\ ~StartsWith(components.identifier, <<122>>)
    THEN Ret(Invalid("Invalid did:key identifier format"))
    ELSE IF components.method = StrKey /\ Len(components.identifier) < 10
    THEN Ret(Invalid("Invalid did:key identifier format"))
    ELSE IF components.method = StrWeb /\ ~Includes(components.identifier, 46)
    THEN Ret(Invalid("did:web identifier must be a valid domain name"))
    ELSE Ret([isValid |-> TRUE, error |-> "",
              warnings |-> MethodWarnings(components.method)])

\* validateDID after `const parseResult = parseDID(did)`
ValidateParsed(parseResult) ==
    IF parseResult.threw THEN parseResult
    ELSE IF ~parseResult.val.isValid THEN Ret(Invalid(parseResult.val.error))
    ELSE ValidateComponents(parseResult.val.components)

\* validateDID(did)
validateDID(did) == ValidateParsed(parseDID(did))

\* `${encodeURIComponent(key)}=${encodeURIComponent(value)}` given the
\* outcomes k and v of the two encodings, put before the pairs in rest
PairBefore(k, v, rest) ==
    IF k.threw THEN k
    ELSE IF v.threw THEN v
    ELSE IF rest.threw THEN rest
    ELSE Ret(<<k.val \o <<61>> \o v.val>> \o rest.val)

\* Object.entries(components.query).map(...): Ret(queryPairs), or the
\* URIError encodeURIComponent throws
RECURSIVE QueryPairs(_)
QueryPairs(entries) ==
    IF entries = <<>> THEN Ret(<<>>)
    ELSE PairBefore(encodeURIComponent(entries[1][1]), encodeURIComponent(entries[1][2]),
                    QueryPairs(Tail(entries)))

\* the string createDIDURL assembles, pairs being the outcome of QueryPairs
AssembleURL(components, pairs) ==
    IF pairs.threw THEN pairs
    ELSE Ret(StrDid \o components.method \o <<58>> \o components.identifier
             \o (IF components.path # Undefined /\ components.path[1] # <<>>
                 THEN <<47>> \o components.path[1]
                 ELSE <<>>)
             \o (IF components.query # Undefined
                 THEN <<63>> \o Join(pairs.val, <<38>>)
                 ELSE <<>>)
             \o (IF components.fragment # Undefined /\ components.fragment[1] # <<>>
                 THEN <<35>> \o components.fragment[1]
                 ELSE <<>>))

\* createDIDURL(components): Ret(url), or the URIError encodeURIComponent throws
createDIDURL(components) ==
    AssembleURL(components,
                IF components.query # Undefined
                THEN QueryPairs(components.query[1])
                ELSE Ret(<<>>))

\* isDID from `const match = did.trim().match(DID_REGEX)` on
IsValidMatch(match) ==
    IF ~match.matched THEN Ret(FALSE)
    ELSE IF match.method = <<>> \/ match.identifier = <<>> THEN Ret(FALSE)
    ELSE IF match.method \notin SUPPORTED_METHODS /\ ~IsMethodName(match.method)
    THEN Ret(FALSE)
    ELSE IF match.method = StrKey /\ ~StartsWith(match.identifier, <<122>>) THEN Ret(FALSE)
    ELSE IF match.method = StrKey /\ HasInvalidKeyChar(match.identifier) THEN Ret(FALSE)
    ELSE IF match.method = StrKey /\ Len(match.identifier) < 10 THEN Ret(FALSE)
    ELSE IF match.method = StrWeb /\ ~Includes(match.identifier, 46) THEN Ret(FALSE)
    ELSE Ret(TRUE)

\* isDID(did)
isDID(did) ==
    IF NotAString(did) THEN Ret(FALSE) ELSE IsValidMatch(DID_REGEX(Trim(did.str)))

Null == <<>>

\* the index after did.match(/^did:([a-z0-9]+):/)[1], the captured method,
\* 0 when there is no match
ExtractedMethodEnd(s) ==
    IF /\ StartsWith(s, StrDid)
       /\ SpanLowerDigit(s, 5) > 5
       /\ SpanLowerDigit(s, 5) <= Len(s)
       /\ s[SpanLowerDigit(s, 5)] = 58
    THEN SpanLowerDigit(s, 5)
    ELSE 0

\* extractMethod(did)
extractMethod(did) ==
    IF NotAString(did) THEN Ret(Null)
    ELSE IF ExtractedMethodEnd(did.str) = 0 THEN Ret(Null)
    ELSE Ret(Some(SubSeq(did.str, 5, ExtractedMethodEnd(did.str) - 1)))

\* did.match(/^did:[a-z0-9]+:([^/?#]+)/)[1] given the end of the method, Null
\* when there is no match
ExtractedIdentifier(s, mEnd) ==
    IF mEnd = 0 \/ SpanNot(s, mEnd + 1, {47, 63, 35}) = mEnd + 1 THEN Null
    ELSE Some(SubSeq(s, mEnd + 1, SpanNot(s, mEnd + 1, {47, 63, 35}) - 1))

\* extractIdentifier(did)
extractIdentifier(did) ==
    IF NotAString(did) THEN Ret(Null)
    ELSE Ret(ExtractedIdentifier(did.str, ExtractedMethodEnd(did.str)))

\* normalizeDID after `const result = parseDID(did)`
NormalizeParsed(result) ==
    IF result.threw THEN result
    ELSE IF ~result.val.isValid
    THEN Throw("DIDError", "Cannot normalize invalid DID: " \o result.val.error)
    ELSE createDIDURL(result.val.components)

\* normalizeDID(did)
normalizeDID(did) == NormalizeParsed(parseDID(did))

----------------------------------------------------------------------------
(* create.ts: the did:key encoding pipeline                                *)

\* MULTICODEC_CODES
MULTICODEC_CODES ==
    ("ed25519-pub" :> 237) @@ ("secp256k1-pub" :> 231) @@ ("x25519-pub" :> 236)

\* BASE58_ALPHABET: 1-9, A-H, J-N, P-Z, a-k, m-z
BASE58_ALPHABET ==
    [i \in 1 .. 9 |-> 48 + i] \o [i \in 1 .. 8 |-> 64 + i] \o [i \in 1 .. 5 |-> 73 + i]
    \o [i \in 1 .. 11 |-> 79 + i] \o [i \in 1 .. 11 |-> 96 + i]
    \o [i \in 1 .. 14 |-> 108 + i]

\* A BigInt is kept as the sequence of its base-256 digits, most significant
\* first, without leading zeros: 0n is the empty sequence.
LeadingZeros(bytes) ==
    IF \A i \in 1 .. Len(bytes) : bytes[i] = 0 THEN Len(bytes)
    ELSE (CHOOSE i \in 1 .. Len(bytes) :
              bytes[i] # 0 /\ \A j \in 1 .. (i - 1) : bytes[j] = 0) - 1

BigNormalize(digits) == SubSeq(digits, LeadingZeros(digits) + 1, Len(digits))

\* one digit of the long division by 58n
DivStep(d) ==
    [rest |-> Tail(d.rest),
     carry |-> (d.carry * 256 + Head(d.rest)) % 58,
     quotient |-> Append(d.quotient, (d.carry * 256 + Head(d.rest)) \div 58)]

\* the element of a set of one element
TheOnly(S) == CHOOSE x \in S : TRUE

\* n digits of the long division: the first half, then the rest from where
\* the first half ended, so that the evaluation nests only log n deep
RECURSIVE DivSteps(_, _)
DivSteps(d, n) ==
    IF n = 0 THEN d
    ELSE IF n = 1 THEN DivStep(d)
    ELSE TheOnly({DivSteps(half, n - (n \div 2)) : half \in {DivSteps(d, n \div 2)}})

\* value / 58n and value % 58n by long division
BigDivMod58(digits) ==
    TheOnly({[quotient |-> BigNormalize(d.quotient), remainder |-> d.carry] :
                d \in {DivSteps([rest |-> digits, carry |-> 0, quotient |-> <<>>],
                                Len(digits))}})

\* one round of the loop `while (value > 0)` of encodeBase58; a round after
\* the loop has ended changes nothing
Base58Step(s) ==
    IF s.value = <<>> THEN s
    ELSE TheOnly({[value |-> d.quotient,
                   digits |-> <<BASE58_ALPHABET[d.remainder + 1]>> \o s.digits] :
                     d \in {BigDivMod58(s.value)}})

\* n rounds of the loop, halved as DivSteps is
RECURSIVE Base58Steps(_, _)
Base58Steps(s, n) ==
    IF n = 0 THEN s
    ELSE IF n = 1 THEN Base58Step(s)
    ELSE TheOnly({Base58Steps(half, n - (n \div 2)) : half \in {Base58Steps(s, n \div 2)}})

\* the loop `while (value > 0)`: it ends within two rounds per byte of the
\* value, 58 * 58 being more than 256
Base58Digits(value) ==
    Base58Steps([value |-> value, digits |-> <<>>], 2 * Len(value)).digits

\* encodeBase58 without the loop over the leading zero bytes
LeadingOnes_None(bytes) == <<>>

\* the loop that prepends one "1" per leading zero byte
LeadingOnes(bytes) == [i \in 1 .. LeadingZeros(bytes) |-> 49]

\* encodeBase58(bytes)
encodeBase58(bytes) ==
    IF bytes = <<>> THEN <<>>
    ELSE LeadingOnes(bytes) \o Base58Digits(BigNormalize(bytes))

\* encodeVarint that keeps the low byte only
encodeVarint_SingleByte(value) == <<value % 256>>

\* encodeVarint(value)
RECURSIVE encodeVarint(_)
encodeVarint(value) ==
    IF value >= 128
    THEN <<(value % 128) + 128>> \o encodeVarint(value \div 128)
    ELSE <<value % 128>>

\* encodeMultibase without the multibase prefix "z"
encodeMultibase_NoPrefix(keyBytes, keyType) ==
    encodeBase58(encodeVarint(MULTICODEC_CODES[keyType]) \o keyBytes)

\* encodeMultibase that leaves the multicodec prefix out
encodeMultibase_NoCodec(keyBytes, keyType) == <<122>> \o encodeBase58(keyBytes)

\* encodeMultibase(keyBytes, keyType)
encodeMultibase(keyBytes, keyType) ==
    <<122>> \o encodeBase58(encodeVarint(MULTICODEC_CODES[keyType]) \o keyBytes)

\* validateHexString(hex): Ret(clean) or the DIDError thrown
validateHexString(hex) ==
    LET clean == IF StartsWith(hex, <<48, 120>>) THEN SubSeq(hex, 3, Len(hex)) ELSE hex
    IN  IF clean = <<>> \/ \E i \in 1 .. Len(clean) : ~IsHexDigit(clean[i])
        THEN Throw("DIDError", "Invalid hexadecimal format")
        ELSE IF Len(clean) % 2 # 0
        THEN Throw("DIDError", "Hexadecimal string must have even length")
        ELSE Ret(clean)

\* hexToBytes(hex): Ret(bytes) or the DIDError validateHexString throws
hexToBytes(hex) ==
    LET clean == validateHexString(hex)
    IN  IF clean.threw THEN clean
        ELSE Ret([i \in 1 .. (Len(clean.val) \div 2) |->
                     16 * HexValue(clean.val[2 * i - 1]) + HexValue(clean.val[2 * i])])

\* expectedLengths of validateKeyLength
ExpectedLengths ==
    ("ed25519-pub" :> <<32>>) @@ ("secp256k1-pub" :> <<33, 65>>) @@ ("x25519-pub" :> <<32>>)

\* allowed.join(" or ")
RECURSIVE JoinOr(_)
JoinOr(allowed) ==
    IF Len(allowed) = 1 THEN ToString(allowed[1])
    ELSE ToString(allowed[1]) \o " or " \o JoinOr(Tail(allowed))

\* validateKeyLength that takes the permitted lengths as minimum lengths
validateKeyLength_AtLeast(keyBytes, keyType) ==
    \E i \in 1 .. Len(ExpectedLengths[keyType]) : ExpectedLengths[keyType][i] <= Len(keyBytes)

\* validateKeyLength(keyBytes, keyType): TRUE when it returns, FALSE when it throws
validateKeyLength(keyBytes, keyType) ==
    \E i \in 1 .. Len(ExpectedLengths[keyType]) : ExpectedLengths[keyType][i] = Len(keyBytes)

\* the message of the DIDError validateKeyLength throws
KeyLengthMessage(keyBytes, keyType) ==
    "Invalid key length for " \o keyType \o ": expected "
    \o JoinOr(ExpectedLengths[keyType]) \o " bytes, got " \o ToString(Len(keyBytes))

\* keyTypeMap of createDIDKey
KeyTypeMap ==
    ("Ed25519" :> "ed25519-pub") @@ ("secp256k1" :> "secp256k1-pub")
    @@ ("X25519" :> "x25519-pub") @@ ("ed25519-pub" :> "ed25519-pub")
    @@ ("secp256k1-pub" :> "secp256k1-pub") @@ ("x25519-pub" :> "x25519-pub")

\* property names every plain object inherits from Object.prototype: looking
\* one up in keyTypeMap yields a function, which is truthy
InheritedKeys == {"constructor", "toString", "valueOf", "hasOwnProperty"}

StrDidKey == <<100, 105, 100, 58, 107, 101, 121, 58>>     \* "did:key:"

StrDidWeb == <<100, 105, 100, 58, 119, 101, 98, 58>>      \* "did:web:"

\* createDIDKey(publicKeyHex, keyType); keyType "undefined" is the omitted
\* argument, which takes the default "ed25519-pub"
createDIDKey(publicKeyHex, keyType) ==
    LET given == IF keyType = "undefined" THEN "ed25519-pub" ELSE keyType
        keyBytes == hexToBytes(publicKeyHex.str)
    IN  IF NotAString(publicKeyHex) THEN Throw("DIDError", "Public key is required")
        ELSE IF given \notin DOMAIN KeyTypeMap \cup InheritedKeys
        THEN Throw("DIDError", "Unsupported key type: " \o given)
        ELSE IF keyBytes.threw THEN keyBytes
        ELSE IF given \in InheritedKeys
        THEN Throw("DIDError", "Failed to create did:key: "
                               \o "Cannot read properties of undefined (reading 'includes')")
        ELSE IF ~validateKeyLength(keyBytes.val, KeyTypeMap[given])
        THEN Throw("DIDError", KeyLengthMessage(keyBytes.val, KeyTypeMap[given]))
        ELSE Ret(StrDidKey \o encodeMultibase(keyBytes.val, KeyTypeMap[given]))

----------------------------------------------------------------------------
(* create.ts: did:web and the dispatcher                                   *)

\* validateDomain with the length check of a domain shorter than 253
validateDomain_Below253(domain) ==
    IF NotAString(domain) THEN "Domain is required"
    ELSE IF IncludesStr(domain.str, <<58, 47, 47>>) \/ Includes(domain.str, 32)
    THEN "Invalid domain format"
    ELSE IF ~Includes(domain.str, 46) THEN "Domain must be a valid FQDN"
    ELSE IF Len(domain.str) >= 253 THEN "Domain too long"
    ELSE ""

\* validateDomain(domain): "" when it returns, else the message of its DIDError
validateDomain(domain) ==
    IF NotAString(domain) THEN "Domain is required"
    ELSE IF IncludesStr(domain.str, <<58, 47, 47>>) \/ Includes(domain.str, 32)
    THEN "Invalid domain format"
    ELSE IF ~Includes(domain.str, 46) THEN "Domain must be a valid FQDN"
    ELSE IF Len(domain.str) > 253 THEN "Domain too long"
    ELSE ""

\* createDIDWeb with the path appended as given
createDIDWeb_PathAsGiven(domain, path) ==
    IF validateDomain(domain) # "" THEN Throw("DIDError", validateDomain(domain))
    ELSE IF Falsy(path)
    THEN Ret(StrDidWeb \o ReplaceAll(domain.str, 58, <<37, 51, 65>>))
    ELSE IF path.type # "string" THEN Throw("DIDError", "Path must be a string")
    ELSE Ret(StrDidWeb \o ReplaceAll(domain.str, 58, <<37, 51, 65>>) \o <<58>> \o path.str)

\* createDIDWeb(domain, path)
createDIDWeb(domain, path) ==
    IF validateDomain(domain) # "" THEN Throw("DIDError", validateDomain(domain))
    ELSE IF Falsy(path)
    THEN Ret(StrDidWeb \o ReplaceAll(domain.str, 58, <<37, 51, 65>>))
    ELSE IF path.type # "string" THEN Throw("DIDError", "Path must be a string")
    ELSE Ret(StrDidWeb \o ReplaceAll(domain.str, 58, <<37, 51, 65>>)
             \o <<58>> \o ReplaceAll(path.str, 47, <<58>>))

\* createDID(options), options = [method, publicKey, keyType, domain, path]
createDID(options) ==
    IF options.method = "key"
    THEN IF Falsy(options.publicKey)
         THEN Throw("DIDError", "publicKey is required for did:key")
         ELSE createDIDKey(options.publicKey, options.keyType)
    ELSE IF options.method = "web"
    THEN IF Falsy(options.domain)
         THEN Throw("DIDError", "domain is required for did:web")
         ELSE createDIDWeb(options.domain, options.path)
    ELSE Throw("DIDError", "Unsupported DID method: " \o options.method)

\* the capability sections createDIDDocument copies when they are given
CapabilitySections ==
    {"authentication", "assertionMethod", "keyAgreement", "capabilityInvocation",
     "capabilityDelegation"}

\* the default "@context" of a JSON-LD document (the two context URLs)
DefaultContext == <<"https://www.w3.org/ns/did/v1",
                    "https://w3id.org/security/suites/ed25519-2020/v1">>

\* a service entry passed through whatever its id
QualifyService_AsGiven(did, svc) == svc

\* one pass of service.map: a fragment-only id gets the DID put in front
QualifyService(did, svc) ==
    IF StartsWith(svc.id, <<35>>) THEN [svc EXCEPT !.id = did \o svc.id] ELSE svc

\* the document createDIDDocument builds once the DID is validated.  options
\* holds Undefined or Some(value) per option; verificationMethod is
\* [isArray, items]; sections maps each capability section to its option; a
\* property the code leaves out is Undefined
BuildDocument(did, options) ==
    [id |-> did,
     controller |-> IF options.controller = Undefined \/ options.controller[1] = <<>>
                    THEN did ELSE options.controller[1],
     context |-> IF options.context # Undefined THEN options.context
                 ELSE IF options.mediaType \in {Undefined, Some("application/did+ld+json")}
                 THEN Some(DefaultContext)
                 ELSE Undefined,
     verificationMethod |-> IF options.verificationMethod = Undefined THEN Undefined
                            ELSE Some(options.verificationMethod[1].items),
     sections |-> [s \in CapabilitySections |-> options.sections[s]],
     service |-> IF options.service # Undefined /\ Len(options.service[1]) > 0
                 THEN Some([i \in 1 .. Len(options.service[1]) |->
                               QualifyService(did, options.service[1][i])])
                 ELSE Undefined]

\* createDIDDocument after `const validation = validateDID(did)`
DocumentValidated(did, options, validation) ==
    IF validation.threw THEN validation
    ELSE IF ~validation.val.isValid
    THEN Throw("DIDError", "Invalid DID: " \o validation.val.error)
    ELSE Ret(BuildDocument(did.str, options))

\* createDIDDocument(did, options)
createDIDDocument(did, options) == DocumentValidated(did, options, validateDID(did))

----------------------------------------------------------------------------
(* did.ts: the DID Unit.  A unit is its capability map, the Map the Unit   *)
(* base class keeps: _addCapability sets an entry, can asks whether there  *)
(* is one, execute calls one.  An implementation is a method of a unit     *)
(* (the closures of the constructor and of teach), a function that returns *)
(* a value (what a key unit teaches), or a value that is no function.      *)

\* kind is "method", "function" or "value"
Impl(kind, unit, name, value) == [kind |-> kind, unit |-> unit, name |-> name, value |-> value]

\* the capabilities the constructor registers for the unit u
BaseCapabilities(u) ==
    [name \in {"generate", "generateKey", "generateWeb", "canGenerateKey", "toJSON"} |->
        Impl("method", u, name, NonStrVal("undefined", 0))]

\* this.can(name)
can(capabilities, name) == name \in DOMAIN capabilities

\* readiness on the public key alone
canGenerateKey_PublicKeyOnly(capabilities) == can(capabilities, "getPublicKey")

\* canGenerateKey()
canGenerateKey(capabilities) ==
    /\ can(capabilities, "getPublicKey")
    /\ can(capabilities, "getKeyType") \/ can(capabilities, "getType")

\* convertKeyToHex(publicKey) for a key that detectKeyFormat finds to be
\* hexadecimal (the keys taught here are hexadecimal, empty, or no strings)
convertKeyToHex(publicKey) ==
    IF NotAString(publicKey)
    THEN Throw("Error", "Invalid public key: must be a non-empty string")
    ELSE Ret([i \in 1 .. Len(Trim(publicKey.str)) |->
                 IF IsUpper(Trim(publicKey.str)[i]) THEN Trim(publicKey.str)[i] + 32
                 ELSE Trim(publicKey.str)[i]])

\* the key type names taught, as text and as code units: "ed25519",
\* "secp256k1", "x25519", "rsa"
UnitKeyTypes ==
    ("ed25519" :> <<101, 100, 50, 53, 53, 49, 57>>)
    @@ ("secp256k1" :> <<115, 101, 99, 112, 50, 53, 54, 107, 49>>)
    @@ ("x25519" :> <<120, 50, 53, 53, 49, 57>>)
    @@ ("rsa" :> <<114, 115, 97>>)

\* generateKey(): the learned capabilities are functions that return a value;
\* keyTypeMap maps ed25519, secp256k1 and x25519 to the "-pub" names
generateKey(capabilities) ==
    LET publicKeyHex == convertKeyToHex(capabilities["getPublicKey"].value)
        keyType == CHOOSE text \in DOMAIN UnitKeyTypes :
                       UnitKeyTypes[text] =
                           capabilities[IF can(capabilities, "getKeyType") THEN "getKeyType"
                                        ELSE "getType"].value.str
    IN  IF ~canGenerateKey(capabilities)
        THEN Throw("Error", "Missing key capabilities. Unit needs to learn from a key unit first.")
        ELSE IF \/ Falsy(capabilities["getPublicKey"].value)
                \/ Falsy(capabilities[IF can(capabilities, "getKeyType") THEN "getKeyType"
                                      ELSE "getType"].value)
        THEN Throw("Error", "Failed to get key information from learned capabilities")
        ELSE IF publicKeyHex.threw THEN publicKeyHex
        ELSE IF publicKeyHex.val = <<>>
        THEN Throw("Error", "Failed to convert public key to hex format")
        ELSE IF keyType \notin {"ed25519", "secp256k1", "x25519"}
        THEN Throw("Error", "Unsupported key type for DID: " \o keyType)
        ELSE createDIDKey(StrVal(publicKeyHex.val), keyType \o "-pub")

\* generateWeb(domain, path)
generateWeb(domain, path) ==
    IF Falsy(domain) THEN Throw("Error", "Domain is required for did:web")
    ELSE createDIDWeb(domain, path)

\* generate(options), options = [method, domain, path]; the method
\* "undefined" is the omitted one, which takes the default "key"
generate(capabilities, options) ==
    IF options.method \in {"key", "undefined"} THEN generateKey(capabilities)
    ELSE IF options.method = "web"
    THEN IF Falsy(options.domain) THEN Throw("Error", "Domain is required for did:web")
         ELSE generateWeb(options.domain, options.path)
    ELSE Throw("Error", "Unsupported DID method: " \o options.method)

\* toJSON(); the id is the random didId of the unit, kept as the unit's name
toJSON(u, capabilities) ==
    [id |-> u, type |-> "did-unit", canGenerateKey |-> canGenerateKey(capabilities),
     learnedCapabilities |-> DOMAIN capabilities]

\* teach(): a contract is [type, unitId, capabilities], capabilities being
\* [type, entries] with the <<name, implementation>> entries in
\* Object.entries order; an absent unitId is ""
teach(u) ==
    [type |-> "object", unitId |-> "did-unit",
     capabilities |->
         [type |-> "object",
          entries |-> <<(<<"generate", Impl("method", u, "generate", NonStrVal("undefined", 0))>>),
                        <<"generateKey", Impl("method", u, "generateKey", NonStrVal("undefined", 0))>>,
                        <<"generateWeb", Impl("method", u, "generateWeb", NonStrVal("undefined", 0))>>,
                        <<"canGenerateKey", Impl("method", u, "canGenerateKey", NonStrVal("undefined", 0))>>,
                        <<"toJSON", Impl("method", u, "toJSON", NonStrVal("undefined", 0))>>>>]]

\* _capabilities.set(key, implementation) for each <<key, implementation>>
\* _addCapability that keeps a capability already registered: the first
\* registration of a name stays
SetAll_FirstWins(capabilities, pairs) ==
    [name \in DOMAIN capabilities \cup {pairs[i][1] : i \in 1 .. Len(pairs)} |->
        IF name \in DOMAIN capabilities THEN capabilities[name]
        ELSE pairs[CHOOSE i \in 1 .. Len(pairs) :
                       /\ pairs[i][1] = name
                       /\ \A j \in 1 .. i - 1 : pairs[j][1] # name][2]]

RECURSIVE SetAll(_, _)
SetAll(capabilities, pairs) ==
    IF pairs = <<>> THEN capabilities
    ELSE SetAll((pairs[1][1] :> pairs[1][2]) @@ capabilities, Tail(pairs))

RECURSIVE Concat(_)
Concat(seqs) == IF seqs = <<>> THEN <<>> ELSE Head(seqs) \o Concat(Tail(seqs))

\* the _addCapability calls of learn for one contract: each function-valued
\* capability under its own name, getType under "getKeyType" as well (the
\* second call for getPublicKey sets the same entry again)
DirectPairs(contract) ==
    Concat([i \in 1 .. Len(contract.capabilities.entries) |->
               IF contract.capabilities.entries[i][2].kind = "value" THEN <<>>
               ELSE IF contract.capabilities.entries[i][1] = "getType"
               THEN <<contract.capabilities.entries[i],
                      <<"getKeyType", contract.capabilities.entries[i][2]>>>>
               ELSE <<contract.capabilities.entries[i]>>])

\* learn that gives up at the first malformed contract of the array instead
\* of skipping it
learn_UntilMalformed(capabilities, teachings) ==
    LET malformed == {c \in 1 .. Len(teachings.items) :
                         ~(/\ teachings.items[c].type = "object"
                           /\ teachings.items[c].capabilities.type = "object"
                           /\ teachings.items[c].unitId # "")}
        validContracts ==
            SubSeq(teachings.items, 1,
                   IF malformed = {} THEN Len(teachings.items)
                   ELSE (CHOOSE c \in malformed : \A d \in malformed : c <= d) - 1)
    IN  IF ~teachings.isArray THEN capabilities
        ELSE SetAll(
                 SetAll(capabilities,
                        Concat([c \in 1 .. Len(validContracts) |->
                                   [i \in 1 .. Len(validContracts[c].capabilities.entries) |->
                                       <<validContracts[c].unitId \o "."
                                             \o validContracts[c].capabilities.entries[i][1],
                                         validContracts[c].capabilities.entries[i][2]>>]])),
                 Concat([c \in 1 .. Len(validContracts) |-> DirectPairs(validContracts[c])]))

\* learn(teachings), teachings = [isArray, items]: the capability map after
\* it.  super.learn registers every capability of the valid contracts as
\* "unitId.name"; then the direct capabilities are added
learn(capabilities, teachings) ==
    LET validContracts ==
            SelectSeq(teachings.items,
                      LAMBDA contract : /\ contract.type = "object"
                                        /\ contract.capabilities.type = "object"
                                        /\ contract.unitId # "")
    IN  IF ~teachings.isArray THEN capabilities
        ELSE SetAll(
                 SetAll(capabilities,
                        Concat([c \in 1 .. Len(validContracts) |->
                                   [i \in 1 .. Len(validContracts[c].capabilities.entries) |->
                                       <<validContracts[c].unitId \o "."
                                             \o validContracts[c].capabilities.entries[i][1],
                                         validContracts[c].capabilities.entries[i][2]>>]])),
                 Concat([c \in 1 .. Len(validContracts) |-> DirectPairs(validContracts[c])]))

\* a closure of the constructor or of teach, run on the unit it was made for
RunMethod(u, capabilities, name, options) ==
    IF name = "generate" THEN generate(capabilities, options)
    ELSE IF name = "generateKey" THEN generateKey(capabilities)
    ELSE IF name = "generateWeb" THEN generateWeb(options.domain, options.path)
    ELSE IF name = "canGenerateKey" THEN Ret(canGenerateKey(capabilities))
    ELSE Ret(toJSON(u, capabilities))

\* execute(name, ...args) on the unit u, units being the capability maps of
\* all units; generate takes options, generateWeb its domain and path
execute(units, u, name, options) ==
    IF ~can(units[u], name) THEN Throw("Error", "Unknown command: " \o name)
    ELSE IF units[u][name].kind = "function" THEN Ret(units[u][name].value)
    ELSE RunMethod(units[u][name].unit, units[units[u][name].unit], units[u][name].name,
                   options)

----------------------------------------------------------------------------
(* Inputs                                                                  *)

\* the strings over an alphabet of length at most n
RECURSIVE StringsUpTo(_, _)
StringsUpTo(alphabet, n) ==
    IF n = 0 THEN {<<>>}
    ELSE LET shorter == StringsUpTo(alphabet, n - 1)
         IN  shorter \cup {Append(s, c) : s \in shorter, c \in alphabet}

\* the code unit c repeated n times
Repeat(c, n) == [i \in 1 .. n |-> c]

JSUndefined == NonStrVal("undefined", 0)

NonStrings ==
    {NonStrVal("null", 0), JSUndefined, NonStrVal("number", 0),
     NonStrVal("number", 123), NonStrVal("object", 0)}

\* the beginnings of the DID strings tried: each is continued by every
\* string of at most MaxTail code units over the alphabet of DIDInputs
DIDHeads ==
    { <<>>,
      StrDid,                                                   \* "did:"
      StrDidKey,                                                \* "did:key:"
      StrDidWeb,                                                \* "did:web:"
      <<100, 105, 100, 58, 97, 98, 58>>,                         \* "did:ab:"
      <<100, 105, 100, 58, 97, 98, 58, 99>>,                     \* "did:ab:c"
      <<32, 100, 105, 100, 58, 97, 98, 58, 99>>,                 \* " did:ab:c"
      <<100, 105, 100, 58, 49, 97, 58, 99>>,                     \* "did:1a:c"
      <<100, 105, 100, 58, 65, 98, 58, 99>>,                     \* "did:Ab:c"
      <<68, 73, 68, 58, 97, 98, 58, 99>>,                        \* "DID:ab:c"
      <<100, 105, 100, 58, 97, 98, 58, 99, 35, 102>>,            \* "did:ab:c#f"
      StrDidKey \o <<122>> \o Repeat(97, 8),                     \* "did:key:zaaaaaaaa"
      StrDidKey \o <<65>> \o Repeat(97, 8),                      \* "did:key:Aaaaaaaaa"
      StrDidWeb \o <<97, 46, 98, 63, 97, 61, 37, 50>>,           \* "did:web:a.b?a=%2"
      StrDidWeb \o <<97, 46, 98, 63, 97, 61, 49, 38, 97>>,      \* "did:web:a.b?a=1&a"
      <<100, 105, 100, 58, 97, 98, 58, 99, 63, 97, 61, 49, 61, 50>> }  \* "did:ab:c?a=1=2"

\* createDIDDocument options: none given; a plain-JSON document with a
\* controller, one verification method and two services; a custom context with
\* an empty controller, an empty service list and an authentication section
DocumentOptions ==
    { [controller |-> Undefined, context |-> Undefined, mediaType |-> Undefined,
       verificationMethod |-> Undefined,
       sections |-> [s \in CapabilitySections |-> Undefined], service |-> Undefined],
      [controller |-> Some(<<100, 105, 100, 58, 97, 98, 58, 120>>),
       context |-> Undefined,
       mediaType |-> Some("application/did+json"),
       verificationMethod |-> Some([isArray |-> FALSE, items |-> <<"#key-1">>]),
       sections |-> [s \in CapabilitySections |-> Undefined],
       service |-> Some(<<[id |-> <<35, 115>>, type |-> "Hub"],
                          [id |-> <<100, 105, 100, 58, 97, 98, 58, 120, 35, 116>>,
                           type |-> "Hub"]>>)],
      [controller |-> Some(<<>>),
       context |-> Some(<<"https://example.org/context">>),
       mediaType |-> Some("application/did+ld+json"),
       verificationMethod |-> Some([isArray |-> TRUE, items |-> <<"#key-1", "#key-2">>]),
       sections |-> [s \in CapabilitySections |->
                        IF s = "authentication" THEN Some(<<"#key-1">>) ELSE Undefined],
       service |-> Some(<<>>)] }

\* the strings and other values handed to the functions of utils.ts: every
\* head continued by every string of at most MaxTail code units over
\* a z . : / ? # space % = & newline; "did:key:zaaaaaaaa" and one more
\* character (each printable ASCII character, a tab, a no-break space); and
\* the values that are no strings
DIDInputs ==
    {StrVal(h \o t) :
        h \in DIDHeads,
        t \in StringsUpTo({97, 122, 46, 58, 47, 63, 35, 32, 37, 61, 38, 10}, MaxTail)}
    \cup {StrVal(StrDidKey \o <<122>> \o Repeat(97, 8) \o <<c>>) : c \in (32 .. 126) \cup {9, 160}}
    \cup NonStrings

\* hexadecimal byte pairs: "00", "01", "d7", "FF"
HexPairs == {<<48, 48>>, <<48, 49>>, <<100, 55>>, <<70, 70>>}

\* n times the two digits of a byte
Flatten(pair, n) == [i \in 1 .. (2 * n) |-> pair[2 - (i % 2)]]

\* well-formed keys: an optional "0x", a first byte, then one byte repeated;
\* the key lengths tried, in bytes, are tiny or around each permitted length
WellFormedHex ==
    {prefix \o (IF n = 0 THEN <<>> ELSE first \o Flatten(fill, n - 1)) :
        prefix \in {<<>>, <<48, 120>>}, first \in HexPairs, fill \in HexPairs,
        n \in {0, 1}
              \cup {m \in 1 .. (65 + MaxExtraBytes) :
                       \E l \in {32, 33, 65} : m - l \in (0 - MaxExtraBytes) .. MaxExtraBytes}}

\* createDIDKey options: the well-formed keys, malformed keys (an odd number
\* of digits, or a digit that is not hexadecimal) and values that are no
\* strings, under every key type name tried
KeyOptions ==
    {[method |-> "key", publicKey |-> k, keyType |-> kt, domain |-> JSUndefined,
      path |-> JSUndefined] :
        k \in {StrVal(h) :
                  h \in WellFormedHex
                        \cup {Append(x, 97) :
                                 x \in {w \in WellFormedHex : Len(w) \in {0, 2, 64, 66}}}
                        \cup {Append(x, 103) \o <<48>> :
                                 x \in {w \in WellFormedHex : Len(w) \in {0, 62}}}}
              \cup NonStrings,
        kt \in {"ed25519-pub", "secp256k1-pub", "x25519-pub", "Ed25519", "secp256k1", "X25519",
                "undefined", "rsa", "toString"}}

\* domains of 252, 253 and 254 characters: "a...a" before ".b", "ab", " .b",
\* "://b.c" or ":8.b"; and "a://b.c"
LongDomains ==
    {Repeat(97, n - Len(x)) \o x :
        n \in {252, 253, 254},
        x \in {<<46, 98>>, <<97, 98>>, <<32, 46, 98>>, <<58, 47, 47, 98, 46, 99>>,
               <<58, 56, 46, 98>>}}
    \cup {<<97, 58, 47, 47, 98, 46, 99>>}

\* createDIDWeb options.  Domains: "", "a.b" or "ab" continued by every
\* string of at most MaxTail code units over a . : / ? # space % tab; the
\* long domains; "localhost", "127.0.0.1", "192.168.1.1", "10.0.0.256", "::1";
\* values that are no strings.  Paths: undefined, "", "p", "p/q", "/", "?x",
\* "#", "%", 5
WebOptions ==
    {[method |-> "web", publicKey |-> JSUndefined, keyType |-> "undefined", domain |-> d,
      path |-> p] :
        d \in {StrVal(h \o t) :
                  h \in {<<>>, <<97, 46, 98>>, <<97, 98>>},
                  t \in StringsUpTo({97, 46, 58, 47, 63, 35, 32, 37, 9}, MaxTail)}
              \cup {StrVal(l) :
                       l \in LongDomains
                             \cup { <<108, 111, 99, 97, 108, 104, 111, 115, 116>>,
                                    <<49, 50, 55, 46, 48, 46, 48, 46, 49>>,
                                    <<49, 57, 50, 46, 49, 54, 56, 46, 49, 46, 49>>,
                                    <<49, 48, 46, 48, 46, 48, 46, 50, 53, 54>>,
                                    <<58, 58, 49>> }}
              \cup NonStrings,
        p \in {JSUndefined, StrVal(<<>>), StrVal(<<112>>), StrVal(<<112, 47, 113>>),
               StrVal(<<47>>), StrVal(<<63, 120>>), StrVal(<<35>>), StrVal(<<37>>),
               NonStrVal("number", 5)}}

OtherOptions ==
    {[method |-> m, publicKey |-> StrVal(<<48, 48>>), keyType |-> "undefined",
      domain |-> StrVal(<<97, 46, 98>>), path |-> JSUndefined] : m \in {"synet", "undefined"}}

----------------------------------------------------------------------------
(* The library as a state machine.  The library keeps no state of its own: *)
(* a behaviour is a caller that holds an argument, calls one function on   *)
(* it and holds the outcome.  op is the function called last ("none"       *)
(* before the call), arg what it was called on, ret its outcome, and calls  *)
(* the exported functions the called function called in turn.              *)

NoResult == Ret(<<>>)

\* validateDID calls parseDID first, whatever its argument
CalledByValidateDID == {"parseDID"}

\* normalizeDID calls parseDID, then createDIDURL unless it throws
CalledByNormalizeDID(result) ==
    IF ~result.threw /\ result.val.isValid THEN {"parseDID", "createDIDURL"}
    ELSE {"parseDID"}

\* createDID calls the creation function of options.method; createDIDKey and
\* createDIDWeb call the private helpers of create.ts only
CalledByCreateDID(options) ==
    IF options.method = "key" /\ ~Falsy(options.publicKey)
    THEN {"createDIDKey"}
    ELSE IF options.method = "web" /\ ~Falsy(options.domain)
    THEN {"createDIDWeb"}
    ELSE {}

Init ==
    /\ op = "none"
    /\ arg \in {[did |-> v, components |-> Undefined, options |-> Undefined] : v \in DIDInputs}
    /\ ret = NoResult
    /\ calls = {}

ParseDID ==
    /\ op = "none"
    /\ op' = "parseDID"
    /\ ret' = parseDID(arg.did)
    /\ calls' = {}
    /\ UNCHANGED arg

ValidateDID ==
    /\ op = "none"
    /\ op' = "validateDID"
    /\ ret' = validateDID(arg.did)
    /\ calls' = CalledByValidateDID
    /\ UNCHANGED arg

IsDID ==
    /\ op = "none"
    /\ op' = "isDID"
    /\ ret' = isDID(arg.did)
    /\ calls' = {}
    /\ UNCHANGED arg

ExtractMethod ==
    /\ op = "none"
    /\ op' = "extractMethod"
    /\ ret' = extractMethod(arg.did)
    /\ calls' = {}
    /\ UNCHANGED arg

ExtractIdentifier ==
    /\ op = "none"
    /\ op' = "extractIdentifier"
    /\ ret' = extractIdentifier(arg.did)
    /\ calls' = {}
    /\ UNCHANGED arg

NormalizeDID ==
    /\ op = "none"
    /\ op' = "normalizeDID"
    /\ ret' = normalizeDID(arg.did)
    /\ calls' = CalledByNormalizeDID(parseDID(arg.did))
    /\ UNCHANGED arg

\* the caller hands the components parseDID returned to createDIDURL
CreateDIDURL ==
    /\ op = "parseDID"
    /\ ~ret.threw
    /\ ret.val.isValid
    /\ op' = "createDIDURL"
    /\ arg' = [arg EXCEPT !.components = Some(ret.val.components)]
    /\ ret' = createDIDURL(ret.val.components)
    /\ calls' = {}

\* validateDID is the only exported function createDIDDocument calls
CalledByCreateDIDDocument == {"validateDID"} \cup CalledByValidateDID

CreateDIDDocument ==
    /\ op = "none"
    /\ \E options \in DocumentOptions :
           /\ arg' = [arg EXCEPT !.options = Some(options)]
           /\ ret' = createDIDDocument(arg.did, options)
    /\ op' = "createDIDDocument"
    /\ calls' = CalledByCreateDIDDocument

Next ==
    \/ CreateDIDDocument
    \/ ParseDID
    \/ ValidateDID
    \/ IsDID
    \/ ExtractMethod
    \/ ExtractIdentifier
    \/ NormalizeDID
    \/ CreateDIDURL

Spec == Init /\ [][Next]_vars

InitCreate ==
    /\ op = "none"
    /\ arg \in KeyOptions \cup WebOptions \cup OtherOptions
    /\ ret = NoResult
    /\ calls = {}

CreateDIDKey ==
    /\ op = "none"
    /\ arg.method = "key"
    /\ op' = "createDIDKey"
    /\ ret' = createDIDKey(arg.publicKey, arg.keyType)
    /\ calls' = {}
    /\ UNCHANGED arg

CreateDIDWeb ==
    /\ op = "none"
    /\ arg.method = "web"
    /\ op' = "createDIDWeb"
    /\ ret' = createDIDWeb(arg.domain, arg.path)
    /\ calls' = {}
    /\ UNCHANGED arg

CreateDID ==
    /\ op = "none"
    /\ op' = "createDID"
    /\ ret' = createDID(arg)
    /\ calls' = CalledByCreateDID(arg)
    /\ UNCHANGED arg

NextCreate ==
    \/ CreateDIDKey
    \/ CreateDIDWeb
    \/ CreateDID

SpecCreate == InitCreate /\ [][NextCreate]_vars

\* numbers handed to encodeVarint: a contiguous range holding the multicodec
\* codes, and the edges of the three- and four-byte encodings
VarintInputs == (0 .. MaxVarint) \cup {16383, 16384, 2097151, 2097152}

\* byte sequences handed to encodeBase58: at most MaxBytes bytes out of
\* 0x00, 0x01, 0x39, 0x3a, 0x7f, and samples with 0xff and leading zeros
ByteInputs ==
    StringsUpTo({0, 1, 57, 58, 127}, MaxBytes)
    \cup {<<255>>, <<255, 255>>, <<0, 255>>, <<0, 0, 255, 255>>, <<0, 0, 0, 0, 0>>}

\* the private encoders of create.ts, called on their own
InitEncode ==
    /\ op = "none"
    /\ arg \in {[kind |-> "number", value |-> n, bytes |-> <<>>] : n \in VarintInputs}
              \cup {[kind |-> "bytes", value |-> 0, bytes |-> b] : b \in ByteInputs}
    /\ ret = NoResult
    /\ calls = {}

EncodeVarint ==
    /\ op = "none"
    /\ arg.kind = "number"
    /\ op' = "encodeVarint"
    /\ ret' = Ret(encodeVarint(arg.value))
    /\ calls' = {}
    /\ UNCHANGED arg

EncodeBase58 ==
    /\ op = "none"
    /\ arg.kind = "bytes"
    /\ op' = "encodeBase58"
    /\ ret' = Ret(encodeBase58(arg.bytes))
    /\ calls' = {}
    /\ UNCHANGED arg

NextEncode ==
    \/ EncodeVarint
    \/ EncodeBase58

SpecEncode == InitEncode /\ [][NextEncode]_vars

\* A caller that calls createDIDKey on one valid key (given without "0x")
\* again and again, with other calls of the library in between.  arg holds the key and the outcome
\* of the first createDIDKey call (first); every function of create.ts and
\* utils.ts works on its arguments and its own locals only, and the module
\* constants are never assigned, so a call leaves nothing behind.
InitHistory ==
    /\ op = "none"
    /\ arg \in {[options |-> o, first |-> Undefined, keyCalls |-> 0, otherCalls |-> 0] :
                   o \in {k \in KeyOptions :
                              /\ k.publicKey.type = "string"
                              /\ ~StartsWith(k.publicKey.str, <<48, 120>>)
                              /\ ~createDIDKey(k.publicKey, k.keyType).threw}}
    /\ ret = NoResult
    /\ calls = {}

\* a call that hands back what the call before it returned
CallCreateDIDKey_Remembering ==
    /\ arg.keyCalls < MaxCalls
    /\ op' = "createDIDKey"
    /\ ret' = IF op = "none" THEN createDIDKey(arg.options.publicKey, arg.options.keyType)
              ELSE ret
    /\ arg' = [arg EXCEPT !.first = IF @ = Undefined THEN Some(ret') ELSE @,
                          !.keyCalls = @ + 1]
    /\ calls' = {}

\* createDIDKey as its nth call runs it, nothing of the earlier calls (op,
\* ret, first) being in its reach
CallCreateDIDKey ==
    /\ arg.keyCalls < MaxCalls
    /\ op' = "createDIDKey"
    /\ ret' = createDIDKey(arg.options.publicKey, arg.options.keyType)
    /\ arg' = [arg EXCEPT !.first = IF @ = Undefined THEN Some(ret') ELSE @,
                          !.keyCalls = @ + 1]
    /\ calls' = {}

\* another call of the library: createDID on other options, or parseDID
CallOther ==
    /\ arg.otherCalls < MaxCalls
    /\ \/ \E o \in OtherOptions \cup {w \in WebOptions : /\ w.domain = StrVal(<<97, 46, 98>>)
                                                        /\ w.path = JSUndefined} :
              /\ op' = "createDID"
              /\ ret' = createDID(o)
              /\ calls' = CalledByCreateDID(o)
       \/ \E d \in {StrVal(h) : h \in {StrDid, StrDidKey \o <<122>> \o Repeat(97, 8)}} :
              /\ op' = "parseDID"
              /\ ret' = parseDID(d)
              /\ calls' = {}
    /\ arg' = [arg EXCEPT !.otherCalls = @ + 1]

NextHistory ==
    \/ CallCreateDIDKey
    \/ CallOther

SpecHistory == InitHistory /\ [][NextHistory]_vars

\* what a caller hands to learn: null instead of an array; arrays of
\* contracts of key units (unit1 teaches the 32-byte key "D7...D7" as
\* ed25519, unit2 the 33-byte key "0201...01" under getType as secp256k1,
\* also in halves, with values that are no functions, with the type "rsa"),
\* of null, undefined and contracts without capabilities or unitId, and of
\* the contract another DID Unit teaches
TeachingInputs(didContract) ==
    LET Contract(unitId, capabilities) ==
            [type |-> "object", unitId |-> unitId, capabilities |-> capabilities]
        Teaches(entries) == [type |-> "object", entries |-> entries]
        NoObject(type) ==
            [type |-> type, unitId |-> "", capabilities |-> [type |-> "undefined", entries |-> <<>>]]
        key1 == StrVal(Flatten(<<68, 55>>, 32))
        key2 == StrVal(<<48, 50>> \o Flatten(<<48, 49>>, 32))
        ed25519 == StrVal(UnitKeyTypes["ed25519"])
        secp256k1 == StrVal(UnitKeyTypes["secp256k1"])
        unit1 == Contract("unit1",
                     Teaches(<<(<<"getPublicKey", Impl("function", "", "", key1)>>),
                               <<"getKeyType", Impl("function", "", "", ed25519)>>>>))
        unit2 == Contract("unit2",
                     Teaches(<<(<<"getPublicKey", Impl("function", "", "", key2)>>),
                               <<"getType", Impl("function", "", "", secp256k1)>>>>))
        keyOnly == Contract("unit1",
                       Teaches(<<(<<"getPublicKey", Impl("function", "", "", key1)>>)>>))
        typeOnly == Contract("unit2",
                        Teaches(<<(<<"getType", Impl("function", "", "", secp256k1)>>)>>))
        values == Contract("unit3",
                      Teaches(<<(<<"getPublicKey", Impl("value", "", "", key1)>>),
                                <<"getKeyType", Impl("value", "", "", ed25519)>>>>))
        rsa == Contract("unit4",
                   Teaches(<<(<<"getPublicKey", Impl("function", "", "", key1)>>),
                             <<"getKeyType",
                               Impl("function", "", "", StrVal(UnitKeyTypes["rsa"]))>>>>))
        noCapabilities == Contract("bad-unit", [type |-> "undefined", entries |-> <<>>])
        noUnitId == Contract("", unit1.capabilities)
    IN  {[isArray |-> FALSE, items |-> <<>>]}
        \cup {[isArray |-> TRUE, items |-> items] :
                 items \in {<<unit1>>, <<unit2>>, <<keyOnly>>, <<typeOnly>>, <<values>>, <<rsa>>,
                            <<unit1, unit2>>,
                            <<NoObject("null"), NoObject("undefined"), noCapabilities, noUnitId>>,
                            <<NoObject("null"), unit1, noCapabilities>>,
                            <<didContract>>}}

\* generate options: none, {method: "key"}, did:web with and without a
\* domain, an unknown method
UnitOptions ==
    {[method |-> m, domain |-> d, path |-> JSUndefined] :
        m \in {"undefined", "key", "web", "synet"}, d \in {JSUndefined, StrVal(<<97, 46, 98>>)}}

\* the creation function a unit method of this name called, by its outcome:
\* the unit itself throws Error only, createDIDKey and createDIDWeb DIDError
CalledByUnit(name, outcome) ==
    IF name \notin {"generate", "generateKey", "generateWeb"} \/ outcome.error = "Error"
    THEN {}
    ELSE IF \/ outcome.threw /\ outcome.msg = "Domain must be a valid FQDN"
            \/ ~outcome.threw /\ StartsWith(outcome.val, StrDidWeb)
    THEN {"createDIDWeb"}
    ELSE {"createDIDKey"}

\* Two DID Units made by DID.create(): "a", which the caller teaches and
\* asks, and "b", which learns unit2's key and teaches "a".  arg holds the
\* capability maps (units), what each unit was given to learn (learned), the
\* map of the learning unit before its last learn (before), and the unit,
\* the method or capability name and the options of the last call.
InitUnit ==
    /\ op = "create"
    /\ arg = [units |-> [u \in {"a", "b"} |-> BaseCapabilities(u)],
              learned |-> [u \in {"a", "b"} |-> <<>>],
              before |-> BaseCapabilities("a"),
              self |-> "a", name |-> "create",
              options |-> [method |-> "undefined", domain |-> JSUndefined, path |-> JSUndefined]]
    /\ ret = NoResult
    /\ calls = {}

Learn ==
    /\ op \in {"create", "learn"}
    /\ Len(arg.learned["a"]) + Len(arg.learned["b"]) < MaxLearns
    /\ \E u \in {"a", "b"} :
           \E teachings \in IF u = "a" THEN TeachingInputs(teach("b"))
                           ELSE {t \in TeachingInputs(teach("a")) :
                                    Len(t.items) = 1 /\ t.items[1].unitId = "unit2"} :
               arg' = [arg EXCEPT !.units[u] = learn(@, teachings),
                                  !.learned[u] = Append(@, teachings),
                                  !.before = arg.units[u],
                                  !.self = u, !.name = "learn"]
    /\ op' = "learn"
    /\ ret' = NoResult
    /\ calls' = {}

\* a method of "a" called directly
CallMethod ==
    /\ op \in {"create", "learn"}
    /\ \E name \in DOMAIN BaseCapabilities("a") :
           \E options \in IF name \in {"generate", "generateWeb"} THEN UnitOptions
                         ELSE {o \in UnitOptions : o.method = "undefined" /\ Falsy(o.domain)} :
               /\ op' = name
               /\ ret' = RunMethod("a", arg.units["a"], name, options)
               /\ calls' = CalledByUnit(name, ret')
               /\ arg' = [arg EXCEPT !.self = "a", !.name = name, !.options = options]

\* "a".execute(name, ...): the base capabilities, the key capabilities, a
\* namespaced capability, an unknown command
Execute ==
    /\ op \in {"create", "learn"}
    /\ \E name \in DOMAIN BaseCapabilities("a")
                  \cup {"getPublicKey", "getKeyType", "unit1.getPublicKey", "unknownCapability"} :
           \E options \in IF name \in {"generate", "generateWeb"} THEN UnitOptions
                         ELSE {o \in UnitOptions : o.method = "undefined" /\ Falsy(o.domain)} :
               /\ op' = "execute"
               /\ ret' = execute(arg.units, "a", name, options)
               /\ calls' = IF can(arg.units["a"], name)
                           THEN CalledByUnit(arg.units["a"][name].name, ret')
                           ELSE {}
               /\ arg' = [arg EXCEPT !.self = "a", !.name = name, !.options = options]

NextUnit ==
    \/ Learn
    \/ CallMethod
    \/ Execute

SpecUnit == InitUnit /\ [][NextUnit]_vars

----------------------------------------------------------------------------
(* Claims                                                                  *)

\* parseDID returned a result with isValid = true
Accepts(parsed) == ~parsed.threw /\ parsed.val.isValid

\* parseDID returned a result with isValid = false
Rejects(parsed) == ~parsed.threw /\ ~parsed.val.isValid

\* validateDID returned a result with isValid = true
IsValidOutcome(validation) == ~validation.threw /\ validation.val.isValid

\* a creation function returned a DID string
ReturnedDID(ops) == op \in ops /\ ~ret.threw

\* C1: for every string x, isDID(x) returns exactly validateDID(x).isValid.
SameVerdict(isDidOutcome, validation) ==
    /\ ~isDidOutcome.threw
    /\ ~validation.threw
    /\ isDidOutcome.val = validation.val.isValid

C1_IsDIDEqualsValidateDID ==
    (op = "isDID" /\ arg.did.type = "string") => SameVerdict(ret, validateDID(arg.did))

\* C2: parseDID, validateDID and isDID never throw, whatever the input: they
\* return a result structure (or a boolean), and a rejected input is reported
\* by isValid = false together with an error.
C2_ParsingNeverThrows ==
    op \in {"parseDID", "validateDID", "isDID"} =>
        /\ ~ret.threw
        /\ op # "isDID" => (ret.val.isValid \/ ret.val.error # "")

\* C3: for every input x that parseDID accepts, normalizeDID(normalizeDID(x))
\* succeeds and equals normalizeDID(x).
NormalizesToItself(normalized) ==
    ~normalized.threw /\ normalizeDID(StrVal(normalized.val)) = normalized

C3_NormalizeIdempotent ==
    (op = "normalizeDID" /\ Accepts(parseDID(arg.did))) => NormalizesToItself(ret)

\* C4: re-parsing createDIDURL(parseDID(d).components) succeeds and yields
\* the components of parseDID(d): method, identifier, path, query, fragment
\* (the query compared as a map).
SameComponents(reparsed, components) ==
    /\ Accepts(reparsed)
    /\ reparsed.val.components.method = components.method
    /\ reparsed.val.components.identifier = components.identifier
    /\ reparsed.val.components.path = components.path
    /\ reparsed.val.components.fragment = components.fragment
    /\ (reparsed.val.components.query = Undefined) = (components.query = Undefined)
    /\ components.query # Undefined =>
           AsMap(reparsed.val.components.query[1]) = AsMap(components.query[1])

C4_RoundTrip ==
    op = "createDIDURL" =>
        ~ret.threw /\ SameComponents(parseDID(StrVal(ret.val)), arg.components[1])

\* C5: every string createDIDKey, createDIDWeb or createDID returns
\* normalizes to itself: normalizeDID(s) succeeds and equals s.
C5_CreatedDIDsNormalizeToThemselves ==
    ReturnedDID({"createDIDKey", "createDIDWeb", "createDID"}) =>
        normalizeDID(StrVal(ret.val)) = Ret(ret.val)

C7_CreatedWebDIDIsValid ==
    (ReturnedDID({"createDIDWeb", "createDID"}) /\ arg.method = "web") =>
        /\ isDID(StrVal(ret.val)) = Ret(TRUE)
        /\ IsValidOutcome(validateDID(StrVal(ret.val)))

\* C8: whenever parseDID(d) succeeds, extractMethod(d) is its method and
\* extractIdentifier(d) its identifier.
C8_ExtractEqualsParsed ==
    Accepts(parseDID(arg.did)) =>
        /\ op = "extractMethod" =>
               ret = Ret(Some(parseDID(arg.did).val.components.method))
        /\ op = "extractIdentifier" =>
               ret = Ret(Some(parseDID(arg.did).val.components.identifier))

\* C9: whenever parseDID(d) fails, extractMethod(d) and extractIdentifier(d)
\* return null.
C9_ExtractNullWhenParseFails ==
    (op \in {"extractMethod", "extractIdentifier"} /\ Rejects(parseDID(arg.did))) =>
        ret = Ret(Null)

\* The DID URL grammar as the specification words it:
\*   "did:" method ":" identifier ["/" path] ["?" query] ["#" fragment]
GrammarMethod(m) ==
    m # <<>> /\ IsLower(m[1]) /\ \A i \in 2 .. Len(m) : IsLower(m[i]) \/ IsDigit(m[i])

GrammarIdentifier(x) == x # <<>> /\ \A i \in 1 .. Len(x) : x[i] \notin {47, 63, 35}

GrammarPath(x) == x = <<>> \/ (x[1] = 47 /\ \A i \in 2 .. Len(x) : x[i] \notin {63, 35})

GrammarQuery(x) == x = <<>> \/ (x[1] = 63 /\ \A i \in 2 .. Len(x) : x[i] # 35)

GrammarFragment(x) == x = <<>> \/ x[1] = 35

MatchesGrammar(s) ==
    /\ StartsWith(s, StrDid)
    /\ \E a \in 5 .. Len(s) :
          /\ s[a] = 58
          /\ GrammarMethod(SubSeq(s, 5, a - 1))
          /\ \E b \in (a + 1) .. Len(s) :
                /\ GrammarIdentifier(SubSeq(s, a + 1, b))
                /\ \E c \in b .. Len(s) :
                      /\ GrammarPath(SubSeq(s, b + 1, c))
                      /\ \E d \in c .. Len(s) :
                            /\ GrammarQuery(SubSeq(s, c + 1, d))
                            /\ GrammarFragment(SubSeq(s, d + 1, Len(s)))

\* C10: the isValid that parseDID(x) returns for a string x is true if and
\* only if the trimmed input matches the DID URL grammar, the fragment being
\* everything after the first "#".
C10_ParseValidIffGrammar ==
    (op = "parseDID" /\ arg.did.type = "string" /\ ~ret.threw) =>
        (ret.val.isValid <=> MatchesGrammar(Trim(arg.did.str)))

\* a well-formed hexadecimal key: an optional "0x", then an even, non-zero
\* number of hexadecimal digits
HexDigitsOf(hex) == IF StartsWith(hex, <<48, 120>>) THEN SubSeq(hex, 3, Len(hex)) ELSE hex

IsHexKey(v) ==
    /\ v.type = "string"
    /\ HexDigitsOf(v.str) # <<>>
    /\ Len(HexDigitsOf(v.str)) % 2 = 0
    /\ \A i \in 1 .. Len(HexDigitsOf(v.str)) : IsHexDigit(HexDigitsOf(v.str)[i])

\* the number of bytes a well-formed hexadecimal key decodes to
DecodedLength(v) == Len(HexDigitsOf(v.str)) \div 2

\* the permitted key lengths, by key type name (the omitted type is Ed25519)
PermittedLengths(keyType) ==
    IF keyType \in {"secp256k1-pub", "secp256k1"} THEN {33, 65} ELSE {32}

KeyTypeNames ==
    {"ed25519-pub", "secp256k1-pub", "x25519-pub", "Ed25519", "secp256k1", "X25519", "undefined"}

\* createDIDKey was called on a well-formed hexadecimal key and a key type name
CalledOnHexKey == op = "createDIDKey" /\ IsHexKey(arg.publicKey) /\ arg.keyType \in KeyTypeNames

\* C11: on a well-formed hexadecimal key, createDIDKey returns when the
\* decoded length is permitted for the key type, and otherwise throws the
\* DIDError "Invalid key length for ...".
C11_LengthGate ==
    CalledOnHexKey =>
        IF DecodedLength(arg.publicKey) \in PermittedLengths(arg.keyType)
        THEN ~ret.threw
        ELSE /\ ret.threw
             /\ ret.error = "DIDError"
             /\ SubSeq(ret.msg, 1, 18) = "Invalid key length"

\* createDIDKey refused a 33-byte key for ed25519-pub
C11_Witness ==
    /\ CalledOnHexKey
    /\ arg.keyType = "ed25519-pub"
    /\ DecodedLength(arg.publicKey) = 33
    /\ ret = Throw("DIDError", "Invalid key length for ed25519-pub: expected 32 bytes, got 33")

\* the value an unsigned LEB128 byte sequence stands for: 7 bits per byte,
\* least significant group first
RECURSIVE Leb128Value(_)
Leb128Value(bytes) ==
    IF bytes = <<>> THEN 0 ELSE (Head(bytes) % 128) + 128 * Leb128Value(Tail(bytes))

\* the continuation bit is set on every byte but the last
IsLeb128(bytes) ==
    /\ bytes # <<>>
    /\ \A i \in 1 .. Len(bytes) : bytes[i] \in 0 .. 255
    /\ \A i \in 1 .. (Len(bytes) - 1) : bytes[i] >= 128
    /\ bytes[Len(bytes)] < 128

\* the multicodec prefixes the specification lists
ExpectedPrefix ==
    ("ed25519-pub" :> <<237, 1>>) @@ ("secp256k1-pub" :> <<231, 1>>)
    @@ ("x25519-pub" :> <<236, 1>>)

\* C12: encodeVarint returns the unsigned LEB128 encoding of its argument,
\* and for the three multicodec codes that is [0xed,0x01], [0xe7,0x01] and
\* [0xec,0x01].
C12_VarintPrefixes ==
    op = "encodeVarint" =>
        /\ ~ret.threw
        /\ IsLeb128(ret.val)
        /\ Leb128Value(ret.val) = arg.value
        /\ \A keyType \in DOMAIN MULTICODEC_CODES :
               arg.value = MULTICODEC_CODES[keyType] => ret.val = ExpectedPrefix[keyType]

\* encodeVarint was called on 0xed, the code of ed25519-pub, and returned two bytes
C12_Witness ==
    op = "encodeVarint" /\ arg.value = MULTICODEC_CODES["ed25519-pub"] /\ Len(ret.val) = 2

\* the Bitcoin base-58 alphabet:
\* 123456789ABCDEFGHJKLMNPQRSTUVWXYZabcdefghijkmnopqrstuvwxyz
BitcoinAlphabet ==
    <<
       49, 50, 51, 52, 53, 54, 55, 56, 57, 65, 66, 67, 68, 69, 70,
       71, 72, 74, 75, 76, 77, 78, 80, 81, 82, 83, 84, 85, 86, 87,
       88, 89, 90, 97, 98, 99, 100, 101, 102, 103, 104, 105, 106, 107, 109,
       110, 111, 112, 113, 114, 115, 116, 117, 118, 119, 120, 121, 122 >>

\* the digit a character of the alphabet stands for
Base58DigitOf(c) == (CHOOSE i \in 1 .. Len(BitcoinAlphabet) : BitcoinAlphabet[i] = c) - 1

\* a byte sequence read as a big-endian unsigned integer
RECURSIVE BigEndianValue(_)
BigEndianValue(bytes) ==
    IF bytes = <<>> THEN 0
    ELSE 256 * BigEndianValue(SubSeq(bytes, 1, Len(bytes) - 1)) + bytes[Len(bytes)]

\* a string of base-58 characters read most significant digit first
RECURSIVE Base58Value(_)
Base58Value(s) ==
    IF s = <<>> THEN 0
    ELSE 58 * Base58Value(SubSeq(s, 1, Len(s) - 1)) + Base58DigitOf(s[Len(s)])

\* the number of zero bytes a byte sequence starts with
ZeroPrefixLength(bytes) ==
    Cardinality({i \in 1 .. Len(bytes) : \A j \in 1 .. i : bytes[j] = 0})

\* s is z characters "1", then the digits of value without a leading zero digit
IsBase58Of(s, z, value) ==
    /\ Len(s) >= z
    /\ \A i \in 1 .. z : s[i] = 49
    /\ \A i \in (z + 1) .. Len(s) : \E k \in 1 .. Len(BitcoinAlphabet) : BitcoinAlphabet[k] = s[i]
    /\ Len(s) > z => s[z + 1] # 49
    /\ Base58Value(SubSeq(s, z + 1, Len(s))) = value

\* C13: encodeBase58(b) is one "1" per leading zero byte of b followed by the
\* base-58 digits of b as a big-endian integer, without a leading zero digit;
\* the empty sequence gives the empty string and n zero bytes give n "1"s.
C13_Base58 ==
    op = "encodeBase58" =>
        /\ ~ret.threw
        /\ IsBase58Of(ret.val, ZeroPrefixLength(arg.bytes), BigEndianValue(arg.bytes))
        /\ arg.bytes = <<>> => ret.val = <<>>
        /\ ZeroPrefixLength(arg.bytes) = Len(arg.bytes) =>
               ret.val = [i \in 1 .. Len(arg.bytes) |-> 49]

\* encodeBase58 was called on two zero bytes and two more bytes, and returned
\* "11" and further digits
C13_Witness ==
    /\ op = "encodeBase58"
    /\ ZeroPrefixLength(arg.bytes) = 2
    /\ Len(arg.bytes) = 4
    /\ Len(ret.val) > 2

\* parseDID returned a rejection whose error starts with the given text
RejectsWith(outcome, text) ==
    /\ ~outcome.threw
    /\ ~outcome.val.isValid
    /\ SubSeq(outcome.val.error, 1, Len(text)) = text

\* C14: parseDID answers a non-string input with "... must be a non-empty
\* string", any string that is empty after trimming with "Empty DID string is
\* invalid", and a non-empty trimmed string outside the grammar with a
\* message starting "Invalid DID format".
C14_ParseFailureMessages ==
    op = "parseDID" =>
        /\ arg.did.type # "string" => RejectsWith(ret, "DID must be a non-empty string")
        /\ (arg.did.type = "string" /\ Trim(arg.did.str) = <<>>) =>
               RejectsWith(ret, "Empty DID string is invalid")
        /\ (arg.did.type = "string" /\ Trim(arg.did.str) # <<>>
                /\ ~MatchesGrammar(Trim(arg.did.str))) =>
               RejectsWith(ret, "Invalid DID format")

\* C14, with the empty string counted with the non-strings: parseDID answers
\* a non-string input and "" with "DID must be a non-empty string", a
\* non-empty string of white space only with "Empty DID string is invalid",
\* and a non-empty trimmed string outside the grammar with a message
\* starting "Invalid DID format".
C14_ParseFailureOrder ==
    op = "parseDID" =>
        /\ (arg.did.type # "string" \/ arg.did.str = <<>>) =>
               RejectsWith(ret, "DID must be a non-empty string")
        /\ (arg.did.type = "string" /\ arg.did.str # <<>> /\ Trim(arg.did.str) = <<>>) =>
               RejectsWith(ret, "Empty DID string is invalid")
        /\ (arg.did.type = "string" /\ Trim(arg.did.str) # <<>>
                /\ ~MatchesGrammar(Trim(arg.did.str))) =>
               RejectsWith(ret, "Invalid DID format")

\* parseDID was called on a non-empty string of white space only
C14_Witness ==
    /\ op = "parseDID"
    /\ arg.did.type = "string"
    /\ Len(arg.did.str) = 2
    /\ Trim(arg.did.str) = <<>>
    /\ ret.val.error = "Empty DID string is invalid"

\* the characters the specification bars from a did:key identifier:
\* space ! @ # $ % ^ & * ( ) + = [ ] { } | \ : " ' < > ? , .
BarredKeyChars ==
    {32, 33, 64, 35, 36, 37, 94, 38, 42, 40, 41, 43, 61, 91, 93, 123, 125, 124, 92, 58,
     34, 39, 60, 62, 63, 44, 46}

\* the characters validateDID bars: those, the semicolon, and every
\* white-space character
BarredKeyCharsAndWhiteSpace(c) == c \in BarredKeyChars \cup {59} \/ IsWhiteSpace(c)

\* validateDID was called on a DID that parseDID accepts with method "key"
ValidatedKeyDID ==
    /\ op = "validateDID"
    /\ Accepts(parseDID(arg.did))
    /\ parseDID(arg.did).val.components.method = StrKey

\* validateDID accepts when wellFormed holds and else answers "Invalid did:key
\* identifier format"
KeyVerdict(outcome, wellFormed) ==
    /\ ~outcome.threw
    /\ outcome.val.isValid = wellFormed
    /\ ~wellFormed => outcome.val.error = "Invalid did:key identifier format"

\* the did:key rule, given the test for a barred character
KeyRule(identifier, Barred(_)) ==
    /\ \A i \in 1 .. Len(identifier) : ~Barred(identifier[i])
    /\ identifier[1] = 122
    /\ Len(identifier) >= 10

IsBarredKeyChar(c) == c \in BarredKeyChars

\* C15: for a parseable did:key DID, validateDID accepts exactly when the
\* identifier holds none of the listed characters, starts with "z" and has
\* at least 10 characters, and else answers "Invalid did:key identifier format".
C15_KeyIdentifierRule ==
    ValidatedKeyDID =>
        KeyVerdict(ret, KeyRule(parseDID(arg.did).val.components.identifier, IsBarredKeyChar))

\* C15, with the semicolon and all white space barred as well
C15_KeyIdentifierRuleWhiteSpace ==
    ValidatedKeyDID =>
        KeyVerdict(ret, KeyRule(parseDID(arg.did).val.components.identifier,
                                BarredKeyCharsAndWhiteSpace))

\* validateDID refused a did:key identifier of 11 characters that starts with
\* "z" and holds a line feed
C15_Witness ==
    /\ ValidatedKeyDID
    /\ Len(parseDID(arg.did).val.components.identifier) = 11
    /\ Includes(parseDID(arg.did).val.components.identifier, 10)
    /\ ret.val.error = "Invalid did:key identifier format"

\* parseDID was called on a string and accepted it; the query text is what the
\* DID holds between "?" and "#" (none: the empty text)
ParsedAccepted == op = "parseDID" /\ arg.did.type = "string" /\ Accepts(ret)

QueryTextOf(did) ==
    IF DID_REGEX(Trim(did)).query = Undefined THEN <<>> ELSE DID_REGEX(Trim(did)).query[1]

\* a pair's key is the text before its first "=", its value the text after it
\* (empty for a bare key)
PairKey(pair) == SubSeq(pair, 1, IndexFrom(pair, 61, 1) - 1)

PairValue(pair) == SubSeq(pair, IndexFrom(pair, 61, 1) + 1, Len(pair))

\* the pairs of a query that carry a key
KeyedPairs(query) == SelectSeq(Split(query, 38), LAMBDA pair : PairKey(pair) # <<>>)

Decoded(s) == decodeURIComponent(s).val

\* the mapping the pairs denote: decoded key to the decoded value of the last
\* pair with that key
LastWins(pairs) ==
    {<<Decoded(PairKey(pairs[i])), Decoded(PairValue(pairs[i]))>> :
        i \in {i \in 1 .. Len(pairs) :
                  \A j \in (i + 1) .. Len(pairs) :
                      Decoded(PairKey(pairs[j])) # Decoded(PairKey(pairs[i]))}}

\* the query mapping of a parse result (none: the empty mapping)
QueryMapOf(result) ==
    IF result.components.query = Undefined THEN {} ELSE AsMap(result.components.query[1])

\* C16: the query mapping parseDID returns holds, for the "&"-separated pairs
\* of the query, each percent-decoded key with its percent-decoded value, the
\* empty string for a bare key, and the last occurrence of a repeated key.
C16_QueryMapping ==
    (/\ ParsedAccepted
     /\ \A i \in 1 .. Len(KeyedPairs(QueryTextOf(arg.did.str))) :
            ~decodeURIComponent(PairValue(KeyedPairs(QueryTextOf(arg.did.str))[i])).threw)
        => QueryMapOf(ret.val) = LastWins(KeyedPairs(QueryTextOf(arg.did.str)))

\* the same for queries whose pairs hold at most one "="
C16_QueryMappingSingleEquals ==
    (/\ ParsedAccepted
     /\ \A i \in 1 .. Len(KeyedPairs(QueryTextOf(arg.did.str))) :
            ~Includes(PairValue(KeyedPairs(QueryTextOf(arg.did.str))[i]), 61))
        => QueryMapOf(ret.val) = LastWins(KeyedPairs(QueryTextOf(arg.did.str)))

\* parseDID returned a mapping for a query with a repeated key
C16_Witness ==
    /\ ParsedAccepted
    /\ Len(KeyedPairs(QueryTextOf(arg.did.str))) = 2
    /\ QueryMapOf(ret.val) = {<<(<<97>>), <<97>>>>}

\* validateDID was called on a DID that parseDID accepts with a method other
\* than "key" and "web"
ValidatedOtherMethod ==
    /\ op = "validateDID"
    /\ Accepts(parseDID(arg.did))
    /\ parseDID(arg.did).val.components.method \notin {StrKey, StrWeb}

\* C17: for a parseable DID whose method is neither "key" nor "web",
\* validateDID returns isValid = true with no error and with the warning
\* "Method '<name>' is not officially supported" for that method.
C17_UnsupportedMethodWarns ==
    ValidatedOtherMethod =>
        /\ ~ret.threw
        /\ ret.val.isValid
        /\ ret.val.error = ""
        /\ ret.val.warnings # Undefined
        /\ \E i \in 1 .. Len(ret.val.warnings[1]) :
               ret.val.warnings[1][i] =
                   <<"Method '%s' is not officially supported",
                     parseDID(arg.did).val.components.method>>

\* validateDID accepted a DID of method "ab" that has a query
C17_Witness ==
    /\ ValidatedOtherMethod
    /\ parseDID(arg.did).val.components.query # Undefined
    /\ ret.val.isValid
    /\ ret.val.warnings # Undefined

\* the functions that raise on invalid input
RaisingFunctions ==
    {"createDIDKey", "createDIDWeb", "createDID", "createDIDDocument", "normalizeDID"}

\* the input of normalizeDID is invalid when parseDID does not accept it, that
\* of createDIDDocument when validateDID does not
InvalidInput ==
    \/ op = "normalizeDID" /\ ~Accepts(parseDID(arg.did))
    \/ op = "createDIDDocument" /\ ~IsValidOutcome(validateDID(arg.did))

\* C18: every failure of createDIDKey, createDIDWeb, createDID,
\* createDIDDocument and normalizeDID is raised as a DIDError: nothing else is
\* thrown, and no value is returned for an invalid input.
C18_FailuresAreDIDErrors ==
    op \in RaisingFunctions =>
        /\ ret.threw => ret.error = "DIDError"
        /\ InvalidInput => ret.threw

\* the same for every input but those on which parseDID itself throws
C18_FailuresAreDIDErrorsWhenParseReturns ==
    (op \in RaisingFunctions /\ (op \in {"createDIDDocument", "normalizeDID"} =>
                                     ~parseDID(arg.did).threw)) =>
        /\ ret.threw => ret.error = "DIDError"
        /\ InvalidInput => ret.threw

\* createDIDWeb was called on this domain
CalledOnDomain == op = "createDIDWeb"

\* the domain is one the specification names as refused: empty or not a
\* string, holding "://", holding no ".", or longer than 253 characters
RefusedDomain(domain) ==
    \/ domain.type # "string"
    \/ domain.str = <<>>
    \/ IncludesStr(domain.str, <<58, 47, 47>>)
    \/ ~Includes(domain.str, 46)
    \/ Len(domain.str) > 253

RaisedDIDError(outcome) == outcome.threw /\ outcome.error = "DIDError"

\* C19: createDIDWeb fails with a DIDError for every domain that is empty or
\* not a string, holds "://", holds no "." or is longer than 253 characters,
\* and accepts a domain of exactly 253 characters that meets the other
\* conditions.
C19_DomainGate ==
    CalledOnDomain =>
        /\ RefusedDomain(arg.domain) => RaisedDIDError(ret)
        /\ (~RefusedDomain(arg.domain) /\ Len(arg.domain.str) = 253 /\ arg.path.type \in {"undefined", "string"})
               => ~ret.threw

\* C19, a domain that holds a space being refused as well
C19_DomainGateNoSpace ==
    CalledOnDomain =>
        /\ (RefusedDomain(arg.domain) \/ Includes(arg.domain.str, 32)) => RaisedDIDError(ret)
        /\ (/\ ~RefusedDomain(arg.domain)
            /\ ~Includes(arg.domain.str, 32)
            /\ Len(arg.domain.str) = 253
            /\ arg.path.type \in {"undefined", "string"})
               => ~ret.threw

\* createDIDWeb returned a DID for a domain of 253 characters
C19_Witness ==
    /\ CalledOnDomain
    /\ arg.domain.type = "string"
    /\ Len(arg.domain.str) = 253
    /\ ~ret.threw

\* s with every occurrence of the character c replaced by r: the pieces of s
\* between the occurrences, put together with r between them
Substituted(s, c, r) == Join(Split(s, c), r)

\* the path given to createDIDWeb, the empty string when there is none
GivenPath(path) == IF path.type = "string" THEN path.str ELSE <<>>

\* the did:web DID of a domain and a path
ExpectedWebDID(domain, path) ==
    StrDidWeb \o Substituted(domain, 58, <<37, 51, 65>>)
    \o (IF path # <<>> THEN <<58>> \o Substituted(path, 47, <<58>>) ELSE <<>>)

\* C20: for every accepted domain and path, createDIDWeb returns "did:web:",
\* the domain with every ":" replaced by "%3A" and, when a non-empty path is
\* given, ":" and the path with every "/" replaced by ":".
C20_WebDIDFormat ==
    (op = "createDIDWeb" /\ ~ret.threw) =>
        ret.val = ExpectedWebDID(arg.domain.str, GivenPath(arg.path))

\* createDIDWeb returned a DID for a domain with a port and a path of two
\* segments
C20_Witness ==
    /\ op = "createDIDWeb"
    /\ ~ret.threw
    /\ Includes(arg.domain.str, 58)
    /\ Includes(GivenPath(arg.path), 47)
    /\ Len(GivenPath(arg.path)) = 3

\* a decimal number of one to three digits that is at most 255
IsOctet(s) ==
    /\ Len(s) \in 1 .. 3
    /\ \A i \in 1 .. Len(s) : IsDigit(s[i])
    /\ (Len(s) = 3 => (s[1] - 48) * 100 + (s[2] - 48) * 10 + (s[3] - 48) <= 255)

\* a dotted IPv4 address: four octets
IsIPv4Literal(s) ==
    /\ Len(Split(s, 46)) = 4
    /\ \A i \in 1 .. 4 : IsOctet(Split(s, 46)[i])

IsLocalhost(s) == s = <<108, 111, 99, 97, 108, 104, 111, 115, 116>>

\* C21: createDIDWeb never returns a DID for the domain "localhost" or for a
\* dotted IPv4 address; it fails with a DIDError.
C21_RejectsLocalhostAndIP ==
    (/\ op = "createDIDWeb"
     /\ arg.domain.type = "string"
     /\ IsLocalhost(arg.domain.str) \/ IsIPv4Literal(arg.domain.str))
        => RaisedDIDError(ret)

\* the same for "localhost" alone
C21_RejectsLocalhost ==
    (op = "createDIDWeb" /\ arg.domain.type = "string" /\ IsLocalhost(arg.domain.str))
        => RaisedDIDError(ret)

\* createDIDDocument returned a document for options that hold services
DocumentWithServices ==
    /\ op = "createDIDDocument"
    /\ ~ret.threw
    /\ arg.options[1].service # Undefined

\* the service entries of a document (none when the property is absent)
ServicesOf(document) == IF document.service = Undefined THEN <<>> ELSE document.service[1]

\* the id a service entry is to have in the document of did
ExpectedServiceId(did, id) == IF id # <<>> /\ id[1] = 35 THEN did \o id ELSE id

\* C22: createDIDDocument rewrites every service id that starts with "#" to
\* the input DID followed by that id, passes every other id through
\* unchanged, and keeps the number and the order of the service entries.
C22_ServiceIds ==
    DocumentWithServices =>
        /\ Len(ServicesOf(ret.val)) = Len(arg.options[1].service[1])
        /\ \A i \in 1 .. Len(arg.options[1].service[1]) :
               /\ ServicesOf(ret.val)[i].id =
                      ExpectedServiceId(arg.did.str, arg.options[1].service[1][i].id)
               /\ ServicesOf(ret.val)[i].type = arg.options[1].service[1][i].type

\* createDIDDocument returned two services for a DID given with a leading
\* space, the first with a rewritten id
C22_Witness ==
    /\ DocumentWithServices
    /\ arg.did.str[1] = 32
    /\ Len(ServicesOf(ret.val)) = 2
    /\ ServicesOf(ret.val)[1].id = arg.did.str \o <<35, 115>>

LeadingCharacters(keyType) ==
    StrDidKey \o (IF keyType \in {"secp256k1-pub", "secp256k1"} THEN <<122, 81, 51, 115>>
                  ELSE IF keyType \in {"x25519-pub", "X25519"} THEN <<122, 54, 76, 83>>
                  ELSE <<122, 54, 77, 107>>)

\* createDIDKey returned a DID for a key type name
CreatedKeyDID == op = "createDIDKey" /\ arg.keyType \in KeyTypeNames /\ ~ret.threw

\* C24: every did:key created for ed25519-pub starts with "did:key:z6Mk",
\* every one for secp256k1-pub with "did:key:zQ3s", every one for x25519-pub
\* with "did:key:z6LS".
C24_LeadingCharacters ==
    CreatedKeyDID => StartsWith(ret.val, LeadingCharacters(arg.keyType))

\* the same for the 32-byte key types, ed25519-pub and x25519-pub
C24_LeadingCharacters32 ==
    (CreatedKeyDID /\ arg.keyType \notin {"secp256k1-pub", "secp256k1"})
        => StartsWith(ret.val, LeadingCharacters(arg.keyType))

\* a contract that learn takes up: an object with a unitId and capabilities
WellFormedContract(contract) ==
    contract.type = "object" /\ contract.unitId # "" /\ contract.capabilities.type = "object"

\* one of the learn calls in history taught a function under one of the names
TaughtFunction(history, names) ==
    \E h \in 1 .. Len(history) :
        /\ history[h].isArray
        /\ \E c \in 1 .. Len(history[h].items) :
               /\ WellFormedContract(history[h].items[c])
               /\ \E e \in 1 .. Len(history[h].items[c].capabilities.entries) :
                      /\ history[h].items[c].capabilities.entries[e][1] \in names
                      /\ history[h].items[c].capabilities.entries[e][2].kind # "value"

\* a unit is ready when it was taught getPublicKey and getKeyType or getType
TaughtKeyCapabilities(history) ==
    /\ TaughtFunction(history, {"getPublicKey"})
    /\ TaughtFunction(history, {"getKeyType", "getType"})

AskedForKeyDID ==
    \/ op = "generateKey"
    \/ op = "generate" /\ arg.options.method \in {"undefined", "key"}

\* the call rejected with the error of a unit that lacks the key capabilities
RejectedForMissingKey(outcome) ==
    /\ outcome.threw
    /\ outcome.msg = "Missing key capabilities. Unit needs to learn from a key unit first."

\* the last call on the unit "a", direct or through execute, returned a did:key
ReturnedKeyDID ==
    /\ op \in {"generateKey", "generate", "execute"}
    /\ arg.name \in {"generateKey", "generate"}
    /\ ~ret.threw
    /\ StartsWith(ret.val, StrDidKey)

\* C26, the calls: while canGenerateKey() is false, generateKey(), generate()
\* and generate({method: 'key'}) reject with "Missing key capabilities".
C26_DirectCallsReject ==
    (AskedForKeyDID /\ ~canGenerateKey(arg.units["a"])) => RejectedForMissingKey(ret)

\* C26: while canGenerateKey() is false, generateKey(), generate() and
\* generate({method: 'key'}) reject with "Missing key capabilities", and no
\* did:key is ever returned before the key capabilities have been learned.
C26_NoKeyDIDBeforeLearning ==
    /\ (AskedForKeyDID /\ ~canGenerateKey(arg.units["a"])) => RejectedForMissingKey(ret)
    /\ ReturnedKeyDID => TaughtKeyCapabilities(arg.learned["a"])

\* the well-formed contracts of the last learn call, in the order given
LearnedContracts ==
    IF arg.learned[arg.self][Len(arg.learned[arg.self])].isArray
    THEN SelectSeq(arg.learned[arg.self][Len(arg.learned[arg.self])].items, WellFormedContract)
    ELSE <<>>

\* the capability names the contracts teach: each capability under
\* "unitId.name", each function under its own name too, getType also as
\* getKeyType
NamesTaught(contracts) ==
    UNION {UNION {{contracts[c].unitId \o "." \o contracts[c].capabilities.entries[e][1]}
                  \cup (IF contracts[c].capabilities.entries[e][2].kind = "value" THEN {}
                        ELSE IF contracts[c].capabilities.entries[e][1] = "getType"
                        THEN {"getType", "getKeyType"}
                        ELSE {contracts[c].capabilities.entries[e][1]}) :
                     e \in 1 .. Len(contracts[c].capabilities.entries)} :
              c \in 1 .. Len(contracts)}

FunctionsTaught(history, names) ==
    Concat([h \in 1 .. Len(history) |->
        IF ~history[h].isArray THEN <<>>
        ELSE Concat([c \in 1 .. Len(history[h].items) |->
                 IF ~WellFormedContract(history[h].items[c]) THEN <<>>
                 ELSE Concat([e \in 1 .. Len(history[h].items[c].capabilities.entries) |->
                          IF /\ history[h].items[c].capabilities.entries[e][1] \in names
                             /\ history[h].items[c].capabilities.entries[e][2].kind # "value"
                          THEN <<history[h].items[c].capabilities.entries[e][2]>>
                          ELSE <<>>])])])

\* the function taught last under one of the names
LastTaught(history, names) ==
    FunctionsTaught(history, names)[Len(FunctionsTaught(history, names))]

\* the names "unitId.capability" of every capability the well-formed
\* contracts of the learn calls in history hold
NamespacedTaught(history) ==
    UNION {UNION {{history[h].items[c].unitId \o "."
                       \o history[h].items[c].capabilities.entries[e][1] :
                      e \in 1 .. Len(history[h].items[c].capabilities.entries)} :
                     c \in {d \in 1 .. Len(history[h].items) :
                               WellFormedContract(history[h].items[d])}} :
              h \in {g \in 1 .. Len(history) : history[g].isArray}}

C30_BaseCapabilitiesKept ==
    (op = "execute" /\ arg.name \in DOMAIN BaseCapabilities("a")) =>
        /\ arg.units["a"][arg.name] = BaseCapabilities("a")[arg.name]
        /\ ret = RunMethod("a", arg.units["a"], arg.name, arg.options)

\* C30, for the contracts of key units: while no learned contract teaches a
\* function under the name of a base capability, execute runs this unit's
\* own methods.
C30_BaseCapabilitiesKeptByKeyUnits ==
    (/\ op = "execute"
     /\ arg.name \in DOMAIN BaseCapabilities("a")
     /\ ~TaughtFunction(arg.learned["a"], DOMAIN BaseCapabilities("a"))) =>
        /\ arg.units["a"][arg.name] = BaseCapabilities("a")[arg.name]
        /\ ret = RunMethod("a", arg.units["a"], arg.name, arg.options)

\* the decoded input of a createDIDKey call: the canonical key type and the
\* key bytes
DecodedInput(options) ==
    <<KeyTypeMap[IF options.keyType = "undefined" THEN "ed25519-pub" ELSE options.keyType],
      hexToBytes(options.publicKey.str).val>>

\* every successful call of createDIDKey on the inputs tried: its decoded
\* input and the DID it returns
SuccessfulKeyCalls ==
    {<<DecodedInput(o), createDIDKey(o.publicKey, o.keyType).val>> :
        o \in {k \in KeyOptions : ~createDIDKey(k.publicKey, k.keyType).threw}}

\* C29: createDIDKey is injective on its decoded input: a successful call
\* returns the DID of another successful call only if both were given the
\* same canonical key type and the same key bytes.
C29_Injective ==
    (op = "createDIDKey" /\ ~ret.threw) =>
        \A other \in SuccessfulKeyCalls :
            other[2] = ret.val => other[1] = DecodedInput(arg)

\* a successful call whose key bytes another successful call was given with
\* another canonical key type, and whose key type another was given with
\* other bytes of the same length
C29_Witness ==
    /\ op = "createDIDKey"
    /\ ~ret.threw
    /\ \E other \in SuccessfulKeyCalls :
           /\ other[1][2] = DecodedInput(arg)[2]
           /\ other[1][1] # DecodedInput(arg)[1]
           /\ other[2] # ret.val
    /\ \E other \in SuccessfulKeyCalls :
           /\ other[1][1] = DecodedInput(arg)[1]
           /\ other[1][2] # DecodedInput(arg)[2]
           /\ Len(other[1][2]) = Len(DecodedInput(arg)[2])
           /\ other[2] # ret.val

====
